---- MODULE Spec2Model ----
(***************************************************************************)
(* st-page-state: class-level state variables kept in the host session     *)
(* namespace and mirrored to the URL query parameters.                     *)
(*                                                                         *)
(* The model follows src/src/st_page_state/core/meta.py (PageStateMeta)    *)
(* and src/src/st_page_state/utils/converters.py.  Python values are       *)
(* records [t, i, s, items] (type tag, integer, string, items); the        *)
(* query parameters and the namespaces are functions whose domain is the   *)
(* set of keys present.                                                    *)
(***************************************************************************)
EXTENDS Integers, Sequences, FiniteSets, TLC

VARIABLES
    registry,          \* the names in _PAGE_STATE_REGISTRY: the classes the program defines
    config,            \* cls._config of every registered class (set at class definition)
    session_state,     \* st.session_state[SESSION_STATE_KEY]: class name -> field -> value
    query_params,      \* st.query_params: key -> string
    is_restoring_url,  \* cls._is_restoring_url of every class
    edits,             \* number of changes made to the URL from outside the engine
    last,              \* the operation that produced this state, with the state it started from
    widgets,           \* the widget keys of st.session_state: key -> value
    class_attrs,       \* plain attributes set on the classes: class name -> name -> value
    dumped,            \* the mapping the last dump() returned: [cls, alias, data, fresh]
    codec,             \* a codec call in progress: [phase, dtype, value_map, value, text, out]
    heap,              \* the mutable objects the program holds: object id -> value
    frames,            \* the call stack of the engine's methods: [fn, cls, key, val, pc, i, ret]
    redis,             \* the remote store: Redis key -> payload
    sid_marker,        \* st.session_state["_st_page_state_sid"] ("" when absent)
    pc,                \* "in" while the body of a `with backend.session()` runs, else "idle"
    sid,               \* the identity resolved for the pass in progress
    saves,             \* the save threads started: [sid, payloads, next payload to write]
    last_save_thread,  \* backend._last_save_thread: index into saves (0 is None)
    passes,            \* number of session() passes started
    faults,            \* number of calls of the Redis client that raised
    stale              \* the namespace discarded by the identity transition of this pass

vars == <<registry, config, session_state, query_params, is_restoring_url, edits, last,
          widgets, class_attrs, dumped, codec, heap, frames, redis, sid_marker, pc, sid, saves, last_save_thread, passes, faults,
          stale>>

\* the host namespace outside the classes' namespaces, and the persistence backend
host_vars == <<widgets, class_attrs, dumped, codec, heap, frames>>
backend_vars ==
    <<redis, sid_marker, pc, sid, saves, last_save_thread, passes, faults, stale>>

-----------------------------------------------------------------------------
(* Bounds *)

\* URL changes made from outside the engine (browser, other code) in one run.
MaxEdits == 1

\* session() passes in one run.
MaxPasses == 2

\* calls of the Redis client that raise in one run.
MaxFaults == 1

-----------------------------------------------------------------------------
(* Python values *)

None == [t |-> "none", i |-> 0, s |-> "", items |-> <<>>]
IntV(n) == [t |-> "int", i |-> n, s |-> "", items |-> <<>>]
StrV(x) == [t |-> "str", i |-> 0, s |-> x, items |-> <<>>]
BoolV(b) == [t |-> "bool", i |-> IF b THEN 1 ELSE 0, s |-> "", items |-> <<>>]

\* collections hold their items in iteration order; temporal values hold their
\* components
ListV(items) == [t |-> "list", i |-> 0, s |-> "", items |-> items]
TupleV(items) == [t |-> "tuple", i |-> 0, s |-> "", items |-> items]
SetV(items) == [t |-> "set", i |-> 0, s |-> "", items |-> items]
DateV(y, m, d) == [t |-> "date", i |-> 0, s |-> "", items |-> <<IntV(y), IntV(m), IntV(d)>>]
TimeV(h, mi, sec, us) ==
    [t |-> "time", i |-> 0, s |-> "", items |-> <<IntV(h), IntV(mi), IntV(sec), IntV(us)>>]
DateTimeV(y, m, d, h, mi, sec, us) ==
    [t |-> "datetime", i |-> 0, s |-> "",
     items |-> <<IntV(y), IntV(m), IntV(d), IntV(h), IntV(mi), IntV(sec), IntV(us)>>]

\* a reference to the mutable object heap[n]: two names that hold RefV(n) see
\* each other's changes in place
RefV(n) == [t |-> "ref", i |-> n, s |-> "", items |-> <<>>]

\* Python's ==: True == 1 and False == 0; two sets are equal when they have
\* the same elements.
PyEq(a, b) ==
    CASE a.t \in {"int", "bool"} /\ b.t \in {"int", "bool"} -> a.i = b.i
      [] a.t = "set" /\ b.t = "set" ->
            {a.items[j] : j \in 1..Len(a.items)} = {b.items[j] : j \in 1..Len(b.items)}
      [] OTHER -> a = b

\* dict operations on functions
EmptyDict == [x \in {} |-> None]
Put(d, k, v) == [x \in (DOMAIN d) \cup {k} |-> IF x = k THEN v ELSE d[x]]
Del(d, k) == [x \in (DOMAIN d) \ {k} |-> d[x]]

-----------------------------------------------------------------------------
(* Text of integers: str(int) and int(str) *)

Digits == <<"0", "1", "2", "3", "4", "5", "6", "7", "8", "9">>
IsDigit(ch) == \E d \in 1..10 : Digits[d] = ch
DigitVal(ch) == (CHOOSE d \in 1..10 : Digits[d] = ch) - 1

RECURSIVE StrOfNat(_)
StrOfNat(n) == IF n < 10 THEN Digits[n + 1] ELSE StrOfNat(n \div 10) \o Digits[(n % 10) + 1]

\* str(n)
StrOfInt(n) == IF n < 0 THEN "-" \o StrOfNat(0 - n) ELSE StrOfNat(n)

RECURSIVE NatOfDigits(_, _)
NatOfDigits(s, acc) ==
    IF Len(s) = 0 THEN acc ELSE NatOfDigits(Tail(s), acc * 10 + DigitVal(Head(s)))

\* int(s) on the characters the model uses: an optional sign, then digits.
IntBody(s) == IF Len(s) > 0 /\ Head(s) \in {"-", "+"} THEN Tail(s) ELSE s
IntParses(s) == Len(IntBody(s)) > 0 /\ \A i \in 1..Len(IntBody(s)) : IsDigit(SubSeq(IntBody(s), i, i))
IntParse(s) ==
    IF Len(s) > 0 /\ Head(s) = "-" THEN 0 - NatOfDigits(IntBody(s), 0) ELSE NatOfDigits(IntBody(s), 0)

\* str.lower() on the letters the model uses
Upper == <<"T", "R", "U", "E", "Y", "S", "O", "N", "F", "A", "L">>
Lower == <<"t", "r", "u", "e", "y", "s", "o", "n", "f", "a", "l">>
LowerChar(ch) ==
    IF \E j \in 1..Len(Upper) : Upper[j] = ch
    THEN Lower[CHOOSE j \in 1..Len(Upper) : Upper[j] = ch] ELSE ch
RECURSIVE LowerStr(_)
LowerStr(s) == IF Len(s) = 0 THEN "" ELSE LowerChar(Head(s)) \o LowerStr(Tail(s))

-----------------------------------------------------------------------------
(* Text: characters, JSON arrays of strings, URL-safe base64, ISO 8601.     *)
(* Strings are over printable ASCII (codes 32..126).                        *)

\* the characters in the order of their codes; a string of this notation
\* cannot hold the grave accent (code 96) and a tab stands in its place
Ascii ==
    " !\"#$%&'()*+,-./0123456789:;<=>?@ABCDEFGHIJKLMNOPQRSTUVWXYZ[\\]^_\tabcdefghijklmnopqrstuvwxyz{|}~"

\* ord(ch) and chr(n)
Ord(ch) == 31 + (CHOOSE j \in 1..Len(Ascii) : SubSeq(Ascii, j, j) = ch)
Chr(n) == SubSeq(Ascii, n - 31, n - 31)

\* the characters of a string, and "".join(parts)
Chars(s) == [j \in 1..Len(s) |-> SubSeq(s, j, j)]
RECURSIVE JoinRange(_, _, _)
JoinRange(parts, lo, hi) ==
    CASE lo > hi -> ""
      [] lo = hi -> parts[lo]
      [] OTHER -> JoinRange(parts, lo, (lo + hi) \div 2) \o JoinRange(parts, (lo + hi) \div 2 + 1, hi)
Join(parts) == JoinRange(parts, 1, Len(parts))

\* the positions lo..hi in order
Positions(lo, hi) == [j \in 1..(hi - lo + 1) |-> lo + j - 1]

\* the length of the run of the character ch that ends just before position p
RunBefore(c, ch, p) ==
    CHOOSE k \in 0..(p - 1) :
        /\ \A h \in (p - k)..(p - 1) : c[h] = ch
        /\ k = p - 1 \/ c[p - k - 1] # ch

\* json.dumps of a list of strings: quotes and backslashes are escaped, the
\* items are separated by ", ".
JsonEscape(s) ==
    Join([j \in 1..Len(s) |->
            IF SubSeq(s, j, j) \in {"\"", "\\"} THEN "\\" \o SubSeq(s, j, j) ELSE SubSeq(s, j, j)])

json_dumps(items) ==
    "[" \o Join([j \in 1..Len(items) |->
                    "\"" \o JsonEscape(items[j]) \o "\"" \o (IF j < Len(items) THEN ", " ELSE "")])
        \o "]"

\* json.loads on the texts that are arrays of strings: [ok, items]; any other
\* text is not read (ok = FALSE).  A quote delimits a string when an even
\* number of backslashes precedes it; a backslash starts an escape when an
\* even number of backslashes precedes it.  Escapes other than \" \\ \/
\* denote characters outside the alphabet.  Outside the strings the text is
\* "[", the strings separated by ",", then "]", with spaces anywhere.
json_loads(text) ==
    LET c == Chars(text)
        n == Len(text)
        Delimits(p) == c[p] = "\"" /\ RunBefore(c, "\\", p) % 2 = 0
        Q == SelectSeq(Positions(1, n), Delimits)
        Opens(p) == \E i \in 1..Len(Q) : Q[i] = p /\ i % 2 = 1
        Inside(p) == \E i \in 1..(Len(Q) \div 2) : Q[2 * i - 1] < p /\ p < Q[2 * i]
        Escapes(p) == Inside(p) /\ c[p] = "\\" /\ RunBefore(c, "\\", p) % 2 = 0
        Token(p) == Opens(p) \/ (~Inside(p) /\ ~Delimits(p) /\ c[p] # " ")
        tokens == SelectSeq(Positions(1, n), Token)
        Symbol(j) == IF Opens(tokens[j]) THEN "S" ELSE c[tokens[j]]
        m == Len(tokens)
        wellformed ==
            /\ Len(Q) % 2 = 0
            /\ m >= 2 /\ Symbol(1) = "[" /\ Symbol(m) = "]"
            /\ m = 2 \/ m % 2 = 1
            /\ \A j \in 2..(m - 1) : Symbol(j) = (IF j % 2 = 0 THEN "S" ELSE ",")
            /\ \A p \in 1..n : Escapes(p) => c[p + 1] \in {"\"", "\\", "/"}
        Item(i) ==
            Join([j \in 1..(Q[2 * i] - Q[2 * i - 1] - 1) |->
                    IF Escapes(Q[2 * i - 1] + j) THEN "" ELSE c[Q[2 * i - 1] + j]])
    IN  IF wellformed THEN [ok |-> TRUE, items |-> [i \in 1..(Len(Q) \div 2) |-> Item(i)]]
        ELSE [ok |-> FALSE, items |-> <<>>]

\* base64.urlsafe_b64encode: three bytes make four characters of the
\* alphabet, the last group is padded with "=".
B64Alphabet == "ABCDEFGHIJKLMNOPQRSTUVWXYZabcdefghijklmnopqrstuvwxyz0123456789-_"
B64Char(n) == SubSeq(B64Alphabet, n + 1, n + 1)

urlsafe_b64encode(s) ==
    LET n == Len(s)
        b(k) == IF k <= n THEN Ord(SubSeq(s, k, k)) ELSE 0
        Group(g) ==
            LET b1 == b(3 * g - 2)
                b2 == b(3 * g - 1)
                b3 == b(3 * g)
            IN  B64Char(b1 \div 4) \o B64Char((b1 % 4) * 16 + (b2 \div 16))
                \o (IF 3 * g - 1 <= n THEN B64Char((b2 % 16) * 4 + (b3 \div 64)) ELSE "=")
                \o (IF 3 * g <= n THEN B64Char(b3 % 64) ELSE "=")
    IN  Join([g \in 1..((n + 2) \div 3) |-> Group(g)])

\* the value of a character of the alphabet ("+" and "/" count as "-" and
\* "_"), 64 for any other character
B64Val(ch) ==
    CASE ch = "+" -> 62
      [] ch = "/" -> 63
      [] \E j \in 1..64 : SubSeq(B64Alphabet, j, j) = ch ->
            (CHOOSE j \in 1..64 : SubSeq(B64Alphabet, j, j) = ch) - 1
      [] OTHER -> 64

\* base64.urlsafe_b64decode(value).decode(): [ok, text].  Characters outside
\* the alphabet are skipped.  A "=" counts as padding when the group in
\* progress has two characters or more; padding that completes the group ends
\* the input; a group left incomplete is an error.  Four characters make
\* three bytes.  A byte outside printable ASCII makes the text unreadable
\* (ok = FALSE).
urlsafe_b64decode(value) ==
    LET c == Chars(value)
        n == Len(value)
        IsData(p) == B64Val(c[p]) < 64
        quad(p) == Cardinality({q \in 1..(p - 1) : IsData(q)}) % 4
        pads(p) == Cardinality({q \in 1..(p - 1) : c[q] = "=" /\ \A h \in q..(p - 1) : ~IsData(h)})
        Stops(p) == c[p] = "=" /\ quad(p) >= 2 /\ quad(p) + pads(p) + 1 >= 4
        stop == IF \E p \in 1..n : Stops(p)
                THEN CHOOSE p \in 1..n : Stops(p) /\ \A q \in 1..(p - 1) : ~Stops(q)
                ELSE n + 1
        D == SelectSeq(Positions(1, stop - 1), IsData)
        d(j) == B64Val(c[D[j]])
        m == Len(D)
        nbytes == (m \div 4) * 3 + (CASE m % 4 = 2 -> 1 [] m % 4 = 3 -> 2 [] OTHER -> 0)
        Byte(k) ==
            LET g == 4 * ((k - 1) \div 3)
            IN  CASE (k - 1) % 3 = 0 -> d(g + 1) * 4 + (d(g + 2) \div 16)
                  [] (k - 1) % 3 = 1 -> (d(g + 2) % 16) * 16 + (d(g + 3) \div 4)
                  [] OTHER -> (d(g + 3) % 4) * 64 + d(g + 4)
    IN  IF (stop <= n \/ m % 4 = 0) /\ \A k \in 1..nbytes : Byte(k) \in 32..126
        THEN [ok |-> TRUE, text |-> Join([k \in 1..nbytes |-> Chr(Byte(k))])]
        ELSE [ok |-> FALSE, text |-> ""]

\* value.split("||") without the empty pieces.  In a run of "|" the
\* separators start at every second character.
split_separator(value) ==
    LET c == Chars(value)
        n == Len(value)
        Starts(p) == p < n /\ c[p] = "|" /\ c[p + 1] = "|" /\ RunBefore(c, "|", p) % 2 = 0
        seps == SelectSeq(Positions(1, n), Starts)
        Piece(i) == SubSeq(value, IF i = 0 THEN 1 ELSE seps[i] + 2,
                                  IF i = Len(seps) THEN n ELSE seps[i + 1] - 1)
        NotEmpty(piece) == piece # ""
    IN  SelectSeq([i \in 1..(Len(seps) + 1) |-> Piece(i - 1)], NotEmpty)

\* digits padded with zeros to the width w
RECURSIVE ZeroPad(_, _)
ZeroPad(s, w) == IF Len(s) >= w THEN s ELSE ZeroPad("0" \o s, w)
Pad(n, w) == ZeroPad(StrOfNat(n), w)

AllDigits(s) == \A j \in 1..Len(s) : IsDigit(SubSeq(s, j, j))

DaysInMonth(y, m) ==
    CASE m \in {4, 6, 9, 11} -> 30
      [] m = 2 -> IF (y % 4 = 0 /\ y % 100 # 0) \/ y % 400 = 0 THEN 29 ELSE 28
      [] OTHER -> 31

\* date.isoformat(), time.isoformat() and datetime.isoformat() on the
\* components <<year, month, day>>, <<hour, minute, second, microsecond>> and
\* their concatenation (naive values: no time zone)
date_isoformat(c) == Pad(c[1].i, 4) \o "-" \o Pad(c[2].i, 2) \o "-" \o Pad(c[3].i, 2)
time_isoformat(c) ==
    Pad(c[1].i, 2) \o ":" \o Pad(c[2].i, 2) \o ":" \o Pad(c[3].i, 2)
    \o (IF c[4].i # 0 THEN "." \o Pad(c[4].i, 6) ELSE "")
isoformat(value) ==
    CASE value.t = "date" -> date_isoformat(value.items)
      [] value.t = "time" -> time_isoformat(value.items)
      [] OTHER -> date_isoformat(SubSeq(value.items, 1, 3)) \o "T"
                  \o time_isoformat(SubSeq(value.items, 4, 7))

\* fromisoformat on the extended format with all fields, the format isoformat
\* writes; the other ISO 8601 forms are rejected here.
NatOf(s) == NatOfDigits(s, 0)
date_parses(s) ==
    /\ Len(s) = 10
    /\ SubSeq(s, 5, 5) = "-" /\ SubSeq(s, 8, 8) = "-"
    /\ AllDigits(SubSeq(s, 1, 4) \o SubSeq(s, 6, 7) \o SubSeq(s, 9, 10))
    /\ NatOf(SubSeq(s, 1, 4)) >= 1
    /\ NatOf(SubSeq(s, 6, 7)) \in 1..12
    /\ NatOf(SubSeq(s, 9, 10)) \in 1..DaysInMonth(NatOf(SubSeq(s, 1, 4)), NatOf(SubSeq(s, 6, 7)))
date_components(s) ==
    <<IntV(NatOf(SubSeq(s, 1, 4))), IntV(NatOf(SubSeq(s, 6, 7))), IntV(NatOf(SubSeq(s, 9, 10)))>>
time_parses(s) ==
    /\ Len(s) \in {8, 15}
    /\ SubSeq(s, 3, 3) = ":" /\ SubSeq(s, 6, 6) = ":"
    /\ AllDigits(SubSeq(s, 1, 2) \o SubSeq(s, 4, 5) \o SubSeq(s, 7, 8))
    /\ NatOf(SubSeq(s, 1, 2)) < 24 /\ NatOf(SubSeq(s, 4, 5)) < 60 /\ NatOf(SubSeq(s, 7, 8)) < 60
    /\ Len(s) = 15 => SubSeq(s, 9, 9) = "." /\ AllDigits(SubSeq(s, 10, 15))
time_components(s) ==
    <<IntV(NatOf(SubSeq(s, 1, 2))), IntV(NatOf(SubSeq(s, 4, 5))), IntV(NatOf(SubSeq(s, 7, 8))),
      IntV(IF Len(s) = 15 THEN NatOf(SubSeq(s, 10, 15)) ELSE 0)>>

-----------------------------------------------------------------------------
(* Codec: utils/converters.py.  A value map is the sequence of the dict's   *)
(* items <<[k |-> internal value, s |-> URL string], ...>>; <<>> is None.   *)
(* A declared type is named by its text: "int", "list[int]",                *)
(* "list[list[int]]", "tuple[int, ...]".                                    *)

NoMap == <<>>

\* isinstance(value, Hashable)
Hashable(value) == value.t \notin {"list", "set"}

MapHasKey(value_map, value) ==
    Hashable(value) /\ \E j \in 1..Len(value_map) : PyEq(value_map[j].k, value)
MapGet(value_map, value) ==
    value_map[CHOOSE j \in 1..Len(value_map) : PyEq(value_map[j].k, value)].s

\* reverse_map = {v: k for k, v in value_map.items()}: the last item with that string wins
ReverseHas(value_map, raw) == \E j \in 1..Len(value_map) : value_map[j].s = raw
ReverseGet(value_map, raw) ==
    value_map[CHOOSE j \in 1..Len(value_map) :
        /\ value_map[j].s = raw
        /\ \A h \in (j + 1)..Len(value_map) : value_map[h].s # raw].k

\* typing.get_origin(target_type): "" is None
BracketAt(T) ==
    IF \E j \in 1..Len(T) : SubSeq(T, j, j) = "["
    THEN CHOOSE j \in 1..Len(T) : SubSeq(T, j, j) = "[" /\ \A h \in 1..(j - 1) : SubSeq(T, h, h) # "["
    ELSE 0
get_origin(T) ==
    LET name == IF BracketAt(T) = 0 THEN T ELSE SubSeq(T, 1, BracketAt(T) - 1)
    IN  CASE name = "List" \/ (name = "list" /\ BracketAt(T) # 0) -> "list"
          [] name = "Tuple" \/ (name = "tuple" /\ BracketAt(T) # 0) -> "tuple"
          [] name = "Set" \/ (name = "set" /\ BracketAt(T) # 0) -> "set"
          [] OTHER -> ""

\* typing.get_args(target_type)[0]: the text of the first argument, "" when
\* there are no arguments
RECURSIVE ArgScan(_, _, _)
ArgScan(s, depth, cur) ==
    IF Len(s) = 0 THEN cur
    ELSE CASE Head(s) = "[" -> ArgScan(Tail(s), depth + 1, cur \o "[")
           [] Head(s) = "]" -> IF depth = 0 THEN cur ELSE ArgScan(Tail(s), depth - 1, cur \o "]")
           [] Head(s) = "," -> IF depth = 0 THEN cur ELSE ArgScan(Tail(s), depth, cur \o ",")
           [] OTHER -> ArgScan(Tail(s), depth, cur \o Head(s))
first_arg(T) == IF BracketAt(T) = 0 THEN "" ELSE ArgScan(SubSeq(T, BracketAt(T) + 1, Len(T)), 0, "")

\* convert_to_URL that never consults the value map
convert_to_URL_unmapped(value, value_map) ==
    CASE value.t = "bool" -> IF value.i = 1 THEN "True" ELSE "False"
      [] value.t = "int" -> StrOfInt(value.i)
      [] value.t = "str" -> value.s
      [] OTHER -> "None"

\* the items joined by the legacy separator
encode_items_legacy(items_str) ==
    Join([j \in 1..Len(items_str) |-> items_str[j] \o (IF j < Len(items_str) THEN "||" ELSE "")])

\* base64.urlsafe_b64encode(json.dumps(items_str).encode()).decode()
encode_items(items_str) == urlsafe_b64encode(json_dumps(items_str))

\* convert_to_URL(key, value, value_map).  A bool is an int too: the branch for
\* (int, float) runs after the branch for bool and leaves str(value).
RECURSIVE convert_to_URL(_, _)
convert_to_URL(value, value_map) ==
    LET converted_value ==
            CASE value.t = "bool" -> IF value.i = 1 THEN "True" ELSE "False"
              [] value.t = "int" -> StrOfInt(value.i)
              [] value.t = "str" -> value.s
              [] value.t \in {"date", "datetime", "time"} -> isoformat(value)
              [] value.t \in {"list", "tuple", "set"} ->
                    encode_items([j \in 1..Len(value.items) |->
                                            convert_to_URL(value.items[j], value_map)])
              [] OTHER -> "None"
    IN  IF MapHasKey(value_map, value) THEN MapGet(value_map, value) ELSE converted_value

\* items_str of convert_from_URL: the base64 JSON list, else the pieces
\* between the legacy separators
decode_items(value) ==
    CHOOSE items_str \in
        {IF b.ok /\ json_loads(b.text).ok THEN json_loads(b.text).items
         ELSE split_separator(value) : b \in {urlsafe_b64decode(value)}} : TRUE

\* set(items_converted): the distinct items
RECURSIVE Distinct(_)
Distinct(items) ==
    IF Len(items) = 0 THEN <<>>
    ELSE LET rest == Distinct(SubSeq(items, 1, Len(items) - 1))
             x == items[Len(items)]
         IN  IF \E j \in 1..Len(rest) : PyEq(rest[j], x) THEN rest ELSE Append(rest, x)

\* the cast of the converted items to the origin; one item that fails makes
\* the whole conversion fail
collect(origin, results) ==
    IF \E j \in 1..Len(results) : ~results[j].ok THEN [ok |-> FALSE, v |-> None]
    ELSE LET items_converted == [j \in 1..Len(results) |-> results[j].v]
         IN  [ok |-> TRUE,
              v |-> CASE origin = "tuple" -> TupleV(items_converted)
                      [] origin = "set" -> SetV(Distinct(items_converted))
                      [] OTHER -> ListV(items_converted)]

\* the recursive call for the items: it passes no value map
RECURSIVE convert_from_URL(_, _, _)
convert_items(items_str, item_type) ==
    [j \in 1..Len(items_str) |-> convert_from_URL(items_str[j], item_type, NoMap)]

\* the iterable types of convert_from_URL: the items of the text, converted
\* with the first type argument (str when there is none), cast to the origin
convert_collection(value, target_type) ==
    collect(get_origin(target_type),
            convert_items(decode_items(value),
                          IF first_arg(target_type) = "" THEN "str" ELSE first_arg(target_type)))

\* date.fromisoformat, datetime.fromisoformat and time.fromisoformat: [ok, v]
fromisoformat(target_type, s) ==
    CASE target_type = "date" /\ date_parses(s) ->
            [ok |-> TRUE, v |-> [None EXCEPT !.t = "date", !.items = date_components(s)]]
      [] target_type = "time" /\ time_parses(s) ->
            [ok |-> TRUE, v |-> [None EXCEPT !.t = "time", !.items = time_components(s)]]
      [] target_type = "datetime" /\ Len(s) >= 12 /\ date_parses(SubSeq(s, 1, 10))
         /\ time_parses(SubSeq(s, 12, Len(s))) ->
            [ok |-> TRUE,
             v |-> [None EXCEPT !.t = "datetime",
                                !.items = date_components(SubSeq(s, 1, 10))
                                          \o time_components(SubSeq(s, 12, Len(s)))]]
      [] OTHER -> [ok |-> FALSE, v |-> None]

\* convert_from_URL(key, value, target_type, value_map): [ok, v]; ok = FALSE is
\* InvalidQueryParamError.
Truthy == {"true", "1", "t", "yes", "on"}
convert_from_URL(raw, target_type, value_map) ==
    LET value == IF ReverseHas(value_map, raw) THEN ReverseGet(value_map, raw) ELSE StrV(raw)
        Fail == [ok |-> FALSE, v |-> None]
    IN  CASE target_type = "bool" ->
                IF value.t = "str" THEN [ok |-> TRUE, v |-> BoolV(LowerStr(value.s) \in Truthy)]
                ELSE Fail
          [] target_type = "int" ->
                CASE value.t = "str" ->
                        IF IntParses(value.s) THEN [ok |-> TRUE, v |-> IntV(IntParse(value.s))]
                        ELSE Fail
                  [] value.t \in {"int", "bool"} -> [ok |-> TRUE, v |-> IntV(value.i)]
                  [] OTHER -> Fail
          [] target_type \in {"date", "datetime", "time"} ->
                IF value.t = "str" THEN fromisoformat(target_type, value.s) ELSE Fail
          [] get_origin(target_type) # "" ->
                IF value.t = "str" THEN convert_collection(value.s, target_type) ELSE Fail
          [] OTHER -> [ok |-> TRUE, v |-> value]

-----------------------------------------------------------------------------
(* Class definitions: PageStateMeta.__init__ *)

\* The state classes a program may define.  F is the class of the documented
\* value-map scenario (status) with a plain integer field (page) and a field
\* without URL key (count).  A and B are the two classes of the sharing
\* scenario, each with one string field; A also has a field without URL key.
\* N has one field whose default is None.  L has a field whose default is a
\* list object (tags, without URL key) next to a string field.
ClassNames == {"F", "A", "B", "N", "L"}

\* cls._model_metadata, in declaration order
FieldNames(c) ==
    CASE c = "F" -> <<"status", "page", "count">>
      [] c = "A" -> <<"a", "hits">>
      [] c = "N" -> <<"opt">>
      [] c = "L" -> <<"tags", "q">>
      [] OTHER -> <<"b">>

StatusMap == <<[k |-> IntV(0), s |-> "pending"], [k |-> IntV(1), s |-> "active"],
               [k |-> IntV(2), s |-> "archived"]>>

\* url_key "" stands for url_key=None (both are falsy in the code's tests)
model_metadata(c, f) ==
    CASE c = "F" /\ f = "status" ->
            [default |-> IntV(1), url_key |-> "status", value_map |-> StatusMap, dtype |-> "int"]
      [] c = "F" /\ f = "page" ->
            [default |-> IntV(1), url_key |-> "page", value_map |-> NoMap, dtype |-> "int"]
      [] c = "F" /\ f = "count" ->
            [default |-> IntV(10), url_key |-> "", value_map |-> NoMap, dtype |-> "int"]
      [] c = "A" /\ f = "a" ->
            [default |-> StrV("val_a"), url_key |-> "a", value_map |-> NoMap, dtype |-> "str"]
      [] c = "A" /\ f = "hits" ->
            [default |-> IntV(0), url_key |-> "", value_map |-> NoMap, dtype |-> "int"]
      [] c = "N" ->
            [default |-> None, url_key |-> "opt", value_map |-> NoMap, dtype |-> "str"]
      [] c = "L" /\ f = "tags" ->
            [default |-> RefV(0), url_key |-> "", value_map |-> NoMap, dtype |-> "list"]
      [] c = "L" ->
            [default |-> StrV("all"), url_key |-> "q", value_map |-> NoMap, dtype |-> "str"]
      [] OTHER ->
            [default |-> StrV("val_b"), url_key |-> "b", value_map |-> NoMap, dtype |-> "str"]

IsField(c, f) == \E j \in 1..Len(FieldNames(c)) : FieldNames(c)[j] = f
FieldSet(c) == {FieldNames(c)[j] : j \in 1..Len(FieldNames(c))}
UrlFields(c) == {f \in FieldSet(c) : model_metadata(c, f).url_key # ""}

\* `hooks` is not a Config entry: it names the hook methods the class defines
\* (hasattr(cls, "on_init"), "before_set", "on_change").
default_config ==
    [url_selfish |-> TRUE, url_prefix |-> "", ignore_none_url |-> TRUE,
     restore_url_on_touch |-> TRUE, share_url_with |-> <<>>, hooks |-> {}]

\* An item of share_url_with: a class object (ref) or a class name (string).
ShareRef(c) == [ref |-> TRUE, name |-> c]
ShareName(n) == [ref |-> FALSE, name |-> n]

\* Config of F: every combination of the four options.
ConfigsF ==
    {[default_config EXCEPT !.url_selfish = sel, !.url_prefix = pre,
                            !.ignore_none_url = ign, !.restore_url_on_touch = res] :
        sel \in BOOLEAN, pre \in {"", "pf_"}, ign \in BOOLEAN, res \in BOOLEAN}

Selfless == [default_config EXCEPT !.url_selfish = FALSE]
Sharing(item) == [default_config EXCEPT !.share_url_with = <<item>>]

\* The programs: F alone under every Config, and A with B under the Configs
\* that make two classes compete for or share the URL.
Programs ==
    {[reg |-> {"F"}, cfg |-> [c \in {"F"} |-> cf]] : cf \in ConfigsF}
    \cup
    {[reg |-> {"A", "B"}, cfg |-> [c \in {"A", "B"} |-> IF c = "A" THEN p[1] ELSE p[2]]] :
        p \in {<<default_config, default_config>>,
               <<default_config, Sharing(ShareName("A"))>>,
               <<default_config, Sharing(ShareRef("A"))>>,
               <<Sharing(ShareRef("B")), Sharing(ShareName("A"))>>,
               <<Selfless, default_config>>,
               <<Selfless, [Selfless EXCEPT !.share_url_with = <<ShareRef("A")>>]>>,
               <<[default_config EXCEPT !.url_prefix = "pf_"], Sharing(ShareName("A"))>>,
               <<[default_config EXCEPT !.restore_url_on_touch = FALSE], Sharing(ShareRef("A"))>>,
               <<default_config, Sharing(ShareName("Gone"))>>}}

-----------------------------------------------------------------------------
(* The engine: PageStateMeta.  An engine state m is the record              *)
(* [reg, cfg, ss, qp, flag] of the registry, the class configs,             *)
(* st.session_state's page-state entry, st.query_params and the             *)
(* _is_restoring_url flags.                                                 *)

\* the keys a class owns: f"{prefix}{m['url_key']}" for its fields with a url_key
OwnKeys(cfg, c) == {cfg[c].url_prefix \o model_metadata(c, f).url_key : f \in UrlFields(c)}

\* a share_url_with item resolved to a class ("" is None: the name is not registered)
ResolveShared(reg, item) ==
    IF item.ref THEN item.name ELSE IF item.name \in reg THEN item.name ELSE ""

\* allowed_keys without the keys of the classes in share_url_with
AllowedKeys_own_only(reg, cfg, c) == OwnKeys(cfg, c)

\* allowed_keys of _sync_url
AllowedKeys(reg, cfg, c) ==
    OwnKeys(cfg, c) \cup
    UNION {IF ResolveShared(reg, cfg[c].share_url_with[j]) # ""
           THEN OwnKeys(cfg, ResolveShared(reg, cfg[c].share_url_with[j])) ELSE {} :
           j \in 1..Len(cfg[c].share_url_with)}

\* a cleanup that deletes nothing
Cleanup_nothing(qp, allowed) == qp

\* the selfish cleanup of _sync_url: keep only the allowed keys
Cleanup(qp, allowed) == [k \in (DOMAIN qp) \cap allowed |-> qp[k]]

\* _ensure_storage
\* bool(value)
Truth(value) ==
    CASE value.t = "none" -> FALSE
      [] value.t \in {"int", "bool"} -> value.i # 0
      [] OTHER -> value.s # ""

\* a hook method of class c is called, if the class defines it; a hook only
\* observes: the call is logged with the namespace and the URL it can see
Hook(m, c, name, field, old_value, value) ==
    IF name \in m.cfg[c].hooks
    THEN [m EXCEPT !.log = Append(@, [hook |-> name, cls |-> c, field |-> field,
                                      old |-> old_value, new |-> value,
                                      ss |-> m.ss, qp |-> m.qp])]
    ELSE m

\* _ensure_storage that calls on_init on every call
ensure_storage_always_init(m, c) ==
    Hook(IF c \in DOMAIN m.ss THEN m ELSE [m EXCEPT !.ss = Put(m.ss, c, EmptyDict)],
         c, "on_init", "", None, None)

\* _ensure_storage that starts the whole system namespace anew when the
\* class has no namespace
ensure_storage_fresh(m, c) ==
    IF c \in DOMAIN m.ss THEN m
    ELSE Hook([m EXCEPT !.ss = Put(EmptyDict, c, EmptyDict)], c, "on_init", "", None, None)

\* _ensure_storage
ensure_storage(m, c) ==
    IF c \in DOMAIN m.ss THEN m
    ELSE Hook([m EXCEPT !.ss = Put(m.ss, c, EmptyDict)], c, "on_init", "", None, None)

\* _sync_url that writes the parameter only when the key is absent
sync_url_if_absent(m, c, key, value) ==
    LET metadata == model_metadata(c, key)
        url_key == metadata.url_key
        final_url_key == m.cfg[c].url_prefix \o url_key
        qp1 == IF m.cfg[c].url_selfish THEN Cleanup(m.qp, AllowedKeys(m.reg, m.cfg, c)) ELSE m.qp
    IN  IF url_key = "" THEN m
        ELSE IF value = None /\ m.cfg[c].ignore_none_url
             THEN [m EXCEPT !.qp = Del(qp1, final_url_key)]
        ELSE IF final_url_key \in DOMAIN qp1 THEN [m EXCEPT !.qp = qp1]
        ELSE LET v == IF value = None THEN StrV("") ELSE value
             IN  [m EXCEPT !.qp = Put(qp1, final_url_key, convert_to_URL(v, metadata.value_map))]

\* _sync_url that runs the selfish cleanup before it tests the field's url_key
sync_url_cleanup_first(m, c, key, value) ==
    LET metadata == model_metadata(c, key)
        url_key == metadata.url_key
        final_url_key == m.cfg[c].url_prefix \o url_key
        qp1 == IF m.cfg[c].url_selfish THEN Cleanup(m.qp, AllowedKeys(m.reg, m.cfg, c)) ELSE m.qp
    IN  IF url_key = "" THEN [m EXCEPT !.qp = qp1]
        ELSE IF value = None /\ m.cfg[c].ignore_none_url
             THEN [m EXCEPT !.qp = Del(qp1, final_url_key)]
        ELSE LET v == IF value = None THEN StrV("") ELSE value
             IN  [m EXCEPT !.qp = Put(qp1, final_url_key, convert_to_URL(v, metadata.value_map))]

\* _sync_url that runs the selfish cleanup whatever url_selfish says
sync_url_always_selfish(m, c, key, value) ==
    LET metadata == model_metadata(c, key)
        url_key == metadata.url_key
        final_url_key == m.cfg[c].url_prefix \o url_key
        qp1 == Cleanup(m.qp, AllowedKeys(m.reg, m.cfg, c))
    IN  IF url_key = "" THEN m
        ELSE IF value = None /\ m.cfg[c].ignore_none_url
             THEN [m EXCEPT !.qp = Del(qp1, final_url_key)]
        ELSE LET v == IF value = None THEN StrV("") ELSE value
             IN  [m EXCEPT !.qp = Put(qp1, final_url_key, convert_to_URL(v, metadata.value_map))]

\* _sync_url(key, value)
sync_url(m, c, key, value) ==
    LET metadata == model_metadata(c, key)
        url_key == metadata.url_key
        final_url_key == m.cfg[c].url_prefix \o url_key
        qp1 == IF m.cfg[c].url_selfish THEN Cleanup(m.qp, AllowedKeys(m.reg, m.cfg, c)) ELSE m.qp
    IN  IF url_key = "" THEN m
        ELSE IF value = None /\ m.cfg[c].ignore_none_url
             THEN [m EXCEPT !.qp = Del(qp1, final_url_key)]
        ELSE LET v == IF value = None THEN StrV("") ELSE value
             IN  [m EXCEPT !.qp = Put(qp1, final_url_key, convert_to_URL(v, metadata.value_map))]

RECURSIVE getattr(_, _, _), setattr(_, _, _, _), initialize_attribute(_, _, _)
RECURSIVE restore_url(_, _), restore_fields(_, _, _)

\* the "restore URL on touch" step of __getattr__ and __setattr__
restore_on_touch(m, c) == IF m.cfg[c].restore_url_on_touch THEN restore_url(m, c) ELSE m

\* return class_ns[key]
stored(m2, c, key) == [m |-> m2, ret |-> m2.ss[c][key]]

\* __getattr__ that resolves the field from the URL again on every read
get_stored_url_first(m1, c, key) == initialize_attribute(m1, c, key)

\* __getattr__ on a declared field, after _ensure_storage: [m, ret]
get_stored(m1, c, key) ==
    IF key \in DOMAIN m1.ss[c] THEN stored(restore_on_touch(m1, c), c, key)
    ELSE initialize_attribute(m1, c, key)

\* __getattr__ on a declared field: [m, ret]
getattr(m, c, key) == get_stored(ensure_storage(m, c), c, key)

\* old_value = class_ns.get(key)
OldValue(m, c, key) == IF key \in DOMAIN m.ss[c] THEN m.ss[c][key] ELSE None

\* the on_change step of __setattr__ that does not test the old value
on_change_always(m, c, key, old_value, value) ==
    Hook(m, c, "on_change", key, old_value, value)

\* the on_change step of __setattr__
on_change(m, c, key, old_value, value) ==
    IF Truth(old_value) /\ ~PyEq(old_value, value)
    THEN Hook(m, c, "on_change", key, old_value, value)
    ELSE m

\* __setattr__ that calls on_change before the URL is synchronised
set_stored_hook_first(m1, c, key, value) ==
    restore_on_touch(
        sync_url(on_change([m1 EXCEPT !.ss[c] = Put(@, key, value)], c, key,
                           OldValue(m1, c, key), value),
                 c, key, value), c)

\* __setattr__ from old_value on: store, sync the URL, restore, on_change
set_stored(m1, c, key, value) ==
    on_change(restore_on_touch(sync_url([m1 EXCEPT !.ss[c] = Put(@, key, value)],
                                        c, key, value), c),
              c, key, OldValue(m1, c, key), value)

\* __setattr__ on a declared field
setattr(m, c, key, value) ==
    set_stored(Hook(ensure_storage(m, c), c, "before_set", "", None, None), c, key, value)

\* _initialize_attribute that never looks at the URL
initialize_attribute_default_only(m, c, field) ==
    LET value_to_set == model_metadata(c, field).default
    IN  [m |-> setattr(m, c, field, value_to_set), ret |-> value_to_set]

\* _initialize_attribute that keeps None when the URL value cannot be decoded
initialize_attribute_no_fallback(m, c, field) ==
    LET metadata == model_metadata(c, field)
        url_key == metadata.url_key
        from_url == url_key # "" /\ url_key \in DOMAIN m.qp
        conv == IF from_url
                THEN convert_from_URL(m.qp[url_key], metadata.dtype, metadata.value_map)
                ELSE [ok |-> FALSE, v |-> None]
        value_to_set == IF from_url THEN (IF conv.ok THEN conv.v ELSE None) ELSE metadata.default
    IN  [m |-> setattr(m, c, field, value_to_set), ret |-> value_to_set]

\* the URL value of _initialize_attribute converted: [ok, v]; ok = FALSE when
\* the field has no URL key, the key is absent or the conversion fails
url_value(m, c, field) ==
    LET metadata == model_metadata(c, field)
        url_key == metadata.url_key
    IN  IF url_key # "" /\ url_key \in DOMAIN m.qp
        THEN convert_from_URL(m.qp[url_key], metadata.dtype, metadata.value_map)
        ELSE [ok |-> FALSE, v |-> None]

\* value_to_set of _initialize_attribute: final_value, or the default when
\* final_value is None
value_to_set(conv, default) == IF conv.ok /\ conv.v # None THEN conv.v ELSE default

\* setattr(cls, field, value_to_set); return value_to_set
set_and_return(m, c, field, value) == [m |-> setattr(m, c, field, value), ret |-> value]

\* _initialize_attribute(field): [m, ret]
initialize_attribute(m, c, field) ==
    set_and_return(m, c, field,
                   value_to_set(url_value(m, c, field), model_metadata(c, field).default))

\* the loop of _restore_url without the ignore_none_url test: None is restored as ""
restore_fields_none_too(m, c, i) ==
    IF i > Len(FieldNames(c)) THEN m
    ELSE LET field == FieldNames(c)[i]
             metadata == model_metadata(c, field)
         IN  IF metadata.url_key = "" THEN restore_fields(m, c, i + 1)
             ELSE LET got == getattr(m, c, field)
                      m1 == got.m
                      final_url_key == m1.cfg[c].url_prefix \o metadata.url_key
                      value == IF got.ret = None THEN StrV("") ELSE got.ret
                      m2 == IF final_url_key \notin DOMAIN m1.qp
                            THEN [m1 EXCEPT !.qp = Put(m1.qp, final_url_key,
                                      convert_to_URL(value, metadata.value_map))]
                            ELSE m1
                  IN  restore_fields(m2, c, i + 1)

\* the loop of _restore_url that returns after the first key it restored
restore_fields_first_only(m, c, i) ==
    IF i > Len(FieldNames(c)) THEN m
    ELSE LET field == FieldNames(c)[i]
             metadata == model_metadata(c, field)
         IN  IF metadata.url_key = "" THEN restore_fields(m, c, i + 1)
             ELSE LET got == getattr(m, c, field)
                      m1 == got.m
                      final_url_key == m1.cfg[c].url_prefix \o metadata.url_key
                  IN  IF got.ret = None /\ m1.cfg[c].ignore_none_url
                      THEN restore_fields(m1, c, i + 1)
                      ELSE LET value == IF got.ret = None THEN StrV("") ELSE got.ret
                           IN  IF final_url_key \notin DOMAIN m1.qp
                               THEN [m1 EXCEPT !.qp = Put(m1.qp, final_url_key,
                                         convert_to_URL(value, metadata.value_map))]
                               ELSE restore_fields(m1, c, i + 1)

\* one item of the loop of _restore_url, after value = getattr(cls, field)
\* gave got = [m, ret]: the parameter is written when it is missing
restore_field(got, c, metadata) ==
    LET m1 == got.m
        final_url_key == m1.cfg[c].url_prefix \o metadata.url_key
    IN  IF got.ret = None /\ m1.cfg[c].ignore_none_url THEN m1
        ELSE IF final_url_key \notin DOMAIN m1.qp
             THEN [m1 EXCEPT !.qp = Put(m1.qp, final_url_key,
                       convert_to_URL(IF got.ret = None THEN StrV("") ELSE got.ret,
                                      metadata.value_map))]
             ELSE m1

\* the loop of _restore_url over cls._model_metadata.items(), from item i on
restore_fields(m, c, i) ==
    IF i > Len(FieldNames(c)) THEN m
    ELSE IF model_metadata(c, FieldNames(c)[i]).url_key = "" THEN restore_fields(m, c, i + 1)
    ELSE restore_fields(restore_field(getattr(m, c, FieldNames(c)[i]), c,
                                      model_metadata(c, FieldNames(c)[i])),
                        c, i + 1)

\* _restore_url that restores nothing
restore_url_nothing(m, c) == m

\* _restore_url
restore_url(m, c) ==
    IF m.flag[c] THEN m
    ELSE LET m1 == [m EXCEPT !.flag[c] = TRUE]
             m2 == restore_fields(m1, c, 1)
         IN  [m2 EXCEPT !.flag[c] = FALSE]

-----------------------------------------------------------------------------
(* The public operations of PageState: core/state.py *)

RECURSIVE reset_fields(_, _, _, _)

\* the loop of reset(field) over cls._model_metadata.items(), from item i on;
\* field = "" is None: every field
reset_fields(m, c, field, i) ==
    IF i > Len(FieldNames(c)) THEN m
    ELSE LET state_field == FieldNames(c)[i]
         IN  IF field = "" \/ field = state_field
             THEN CHOOSE r \in {reset_fields(m1, c, field, i + 1) :
                                m1 \in {setattr(m, c, state_field,
                                                model_metadata(c, state_field).default)}} : TRUE
             ELSE reset_fields(m, c, field, i + 1)

\* reset that only replaces the stored values
reset_namespace_only(m, c, field) ==
    LET m1 == ensure_storage(m, c)
        old == m1.ss[c]
    IN  [m1 EXCEPT !.ss[c] =
            [f \in (DOMAIN old) \cup {x \in FieldSet(c) : field = "" \/ field = x} |->
                IF field = "" \/ field = f THEN model_metadata(c, f).default ELSE old[f]]]

\* reset(field)
reset(m, c, field) == reset_fields(m, c, field, 1)

\* widget_key = f"{cls.__name__}_{field}_widget"
WidgetKey(c, field) == c \o "_" \o field \o "_widget"

\* st.session_state[widget_key] = initial_value, with the state the read left
seed(got, w, c, field) ==
    [m |-> got.m, w |-> Put(w, WidgetKey(c, field), got.ret), ret |-> got.ret, raised |-> FALSE]

\* bind that also assigns the initial value to the field
bind_and_assign(m, w, c, field) ==
    IF ~IsField(c, field) THEN [m |-> m, w |-> w, ret |-> None, raised |-> TRUE]
    ELSE CHOOSE r \in {[s EXCEPT !.m = setattr(s.m, c, field, s.ret)] :
                          s \in {seed(getattr(m, c, field), w, c, field)}} : TRUE

\* bind that seeds the widget key before it looks the field up
bind_unchecked(m, w, c, field) ==
    IF ~IsField(c, field)
    THEN [m |-> ensure_storage(m, c), w |-> Put(w, WidgetKey(c, field), None),
          ret |-> None, raised |-> TRUE]
    ELSE seed(getattr(m, c, field), w, c, field)

\* bind(field): [m, w, ret, raised]; w is the widget part of st.session_state,
\* ret the initial value, raised the ValueError for an undeclared field
bind(m, w, c, field) ==
    IF ~IsField(c, field) THEN [m |-> m, w |-> w, ret |-> None, raised |-> TRUE]
    ELSE seed(getattr(m, c, field), w, c, field)

\* a callback that writes back the value the field holds since the bind
callback_stale(m, w, c, field) ==
    CHOOSE r \in {setattr(m, c, field, got.ret) : got \in {getattr(m, c, field)}} : TRUE

\* the callback bind returns: setattr(cls, field, st.session_state.get(widget_key))
callback(m, w, c, field) ==
    LET new_value == IF WidgetKey(c, field) \in DOMAIN w THEN w[WidgetKey(c, field)] ELSE None
    IN  setattr(m, c, field, new_value)

\* focus(): one pass of the ownership cleanup, whatever url_selfish is
focus(m, c) == [m EXCEPT !.qp = Cleanup(m.qp, AllowedKeys(m.reg, m.cfg, c))]

\* dump that hands out the namespace dict itself
dump_alias(m, c) ==
    [m |-> m, alias |-> c \in DOMAIN m.ss,
     data |-> IF c \in DOMAIN m.ss THEN m.ss[c] ELSE EmptyDict]

\* dump that makes sure the namespace exists before it copies it
dump_ensuring(m, c) ==
    [m |-> ensure_storage(m, c), alias |-> FALSE,
     data |-> IF c \in DOMAIN m.ss THEN m.ss[c] ELSE EmptyDict]

\* dump(): [m, alias, data]; dict(...) builds a new mapping, alias = FALSE
dump(m, c) ==
    [m |-> m, alias |-> FALSE, data |-> IF c \in DOMAIN m.ss THEN m.ss[c] ELSE EmptyDict]

\* __getattr__ that prepares the namespace before it looks the name up
getattr_unknown_storage_first(m, attrs, c, key) ==
    IF c \in DOMAIN attrs /\ key \in DOMAIN attrs[c]
    THEN [m |-> m, raised |-> FALSE, ret |-> attrs[c][key]]
    ELSE [m |-> ensure_storage(m, c), raised |-> TRUE, ret |-> None]

\* value = Class.key for a key that is not in _model_metadata: [m, raised, ret].
\* Python finds a plain attribute of the class by itself and calls __getattr__
\* only when there is none; __getattr__ then raises AttributeError.
getattr_unknown(m, attrs, c, key) ==
    IF c \in DOMAIN attrs /\ key \in DOMAIN attrs[c]
    THEN [m |-> m, raised |-> FALSE, ret |-> attrs[c][key]]
    ELSE [m |-> m, raised |-> TRUE, ret |-> None]

\* __setattr__ that refuses a key that is not in _model_metadata
setattr_unknown_raising(m, attrs, c, key, value) ==
    [m |-> m, raised |-> TRUE, attrs |-> attrs]

\* __setattr__ on a key that is not in _model_metadata:
\* super().__setattr__(key, value): [m, raised, attrs]
setattr_unknown(m, attrs, c, key, value) ==
    [m |-> m, raised |-> FALSE,
     attrs |-> Put(attrs, c, Put(IF c \in DOMAIN attrs THEN attrs[c] ELSE EmptyDict, key, value))]

-----------------------------------------------------------------------------
(* State serialization: serialize_state / deserialize_state of              *)
(* utils/converters.py.  The JSON object is kept as a function from the     *)
(* field names to the JSON text of each value.                              *)

Quote == "\""

\* json.dumps of a primitive: _prepare_for_json passes str, int, bool, None through
JsonText(v) ==
    CASE v.t = "none" -> "null"
      [] v.t = "bool" -> IF v.i = 1 THEN "true" ELSE "false"
      [] v.t = "int" -> StrOfInt(v.i)
      [] OTHER -> Quote \o v.s \o Quote

\* json.loads of the text of a primitive
JsonValue(text) ==
    CASE text = "null" -> None
      [] text = "true" -> BoolV(TRUE)
      [] text = "false" -> BoolV(FALSE)
      [] Len(text) >= 2 /\ Head(text) = Quote -> StrV(SubSeq(text, 2, Len(text) - 1))
      [] OTHER -> IntV(IntParse(text))

serialize_state(data) == [f \in DOMAIN data |-> JsonText(data[f])]
deserialize_state(raw) == [f \in DOMAIN raw |-> JsonValue(raw[f])]

-----------------------------------------------------------------------------
(* Persistence: backends/redis_backend.py.  The remote store is a function  *)
(* from Redis keys to payloads.  A call of the client that fails raises; a  *)
(* result [raised |-> TRUE] is an exception leaving the method.             *)

key_prefix == "st_page_state"

\* _key(class_name, session_id)
RedisKey(class_name, session_id) == key_prefix \o ":" \o session_id \o ":" \o class_name

\* the keys SCAN matches for f"{key_prefix}:{session_id}:*"
ScanPattern(session_id) == key_prefix \o ":" \o session_id \o ":"
Matches(k, session_id) ==
    /\ Len(k) >= Len(ScanPattern(session_id))
    /\ SubSeq(k, 1, Len(ScanPattern(session_id))) = ScanPattern(session_id)
ScanKeys(store, session_id) == {k \in DOMAIN store : Matches(k, session_id)}
\* class_name = key[prefix_len:]
ClassOfKey(k, session_id) == SubSeq(k, Len(ScanPattern(session_id)) + 1, Len(k))

\* load(class_name, session_id): [raised, some, data]; some = FALSE is None.
\* `fails` says that the client's GET raises.
load(store, class_name, session_id, fails) ==
    LET key == RedisKey(class_name, session_id)
    IN  IF fails THEN [raised |-> FALSE, some |-> FALSE, data |-> EmptyDict]
        ELSE IF key \in DOMAIN store
             THEN [raised |-> FALSE, some |-> TRUE, data |-> deserialize_state(store[key])]
             ELSE [raised |-> FALSE, some |-> FALSE, data |-> EmptyDict]

\* load_all whose try block does not cover the loop: a failing call raises
load_all_unprotected(store, session_id, seen, get_fails) ==
    LET names == {ClassOfKey(k, session_id) : k \in seen}
        got(n) == load(store, n, session_id, n \in get_fails)
        kept == {n \in names : got(n).some /\ got(n).data # EmptyDict}
    IN  [raised |-> seen # ScanKeys(store, session_id) \/ (names \cap get_fails) # {},
         result |-> [n \in kept |-> got(n).data]]

\* load_all(session_id): [raised, result].  `seen` are the keys SCAN returned
\* before it raised (all the matching keys when it does not raise);
\* `get_fails` are the class names whose GET raises.
load_all(store, session_id, seen, get_fails) ==
    LET names == {ClassOfKey(k, session_id) : k \in seen}
        got(n) == load(store, n, session_id, n \in get_fails)
        kept == {n \in names : got(n).some /\ got(n).data # EmptyDict}
    IN  [raised |-> FALSE, result |-> [n \in kept |-> got(n).data]]

\* save(class_name, session_id, data, ttl): [raised, store]
save(store, class_name, session_id, data, fails) ==
    LET key == RedisKey(class_name, session_id)
        payload == serialize_state(data)
    IN  IF fails THEN [raised |-> FALSE, store |-> store]
        ELSE [raised |-> FALSE, store |-> Put(store, key, payload)]

\* delete(class_name, session_id): [raised, store]
delete(store, class_name, session_id, fails) ==
    LET key == RedisKey(class_name, session_id)
    IN  IF fails THEN [raised |-> FALSE, store |-> store]
        ELSE [raised |-> FALSE, store |-> Del(store, key)]

\* dict.update
Update(d, fields) ==
    [x \in (DOMAIN d) \cup (DOMAIN fields) |-> IF x \in DOMAIN fields THEN fields[x] ELSE d[x]]

\* the fields of a loaded class that session() keeps: those whose prefixed
\* URL key is not among the current query parameters
FilterLoaded(m, class_name, fields) ==
    LET url_fields == IF class_name \in m.reg THEN OwnKeys(m.cfg, class_name) ELSE {}
        overridden(fname) ==
            /\ class_name \in m.reg /\ IsField(class_name, fname)
            /\ model_metadata(class_name, fname).url_key # ""
            /\ (m.cfg[class_name].url_prefix \o model_metadata(class_name, fname).url_key)
                   \in DOMAIN m.qp
    IN  IF url_fields \cap DOMAIN m.qp # {}
        THEN [fname \in {x \in DOMAIN fields : ~overridden(x)} |-> fields[fname]]
        ELSE fields

\* the LOAD step of session() that also refreshes warm classes
LoadStep_warm_too(m, loaded) ==
    LET kept(n) == FilterLoaded(m, n, loaded[n])
        taken == {n \in DOMAIN loaded : kept(n) # EmptyDict}
    IN  [m EXCEPT !.ss =
            [n \in (DOMAIN m.ss) \cup taken |->
                IF n \in taken
                THEN Update(IF n \in DOMAIN m.ss THEN m.ss[n] ELSE EmptyDict, kept(n))
                ELSE m.ss[n]]]

\* the LOAD step of session(): the loop over load_all(sid).items()
LoadStep(m, loaded) ==
    LET warm(n) == n \in DOMAIN m.ss /\ m.ss[n] # EmptyDict
        kept(n) == FilterLoaded(m, n, loaded[n])
        taken == {n \in DOMAIN loaded : ~warm(n) /\ kept(n) # EmptyDict}
    IN  [m EXCEPT !.ss =
            [n \in (DOMAIN m.ss) \cup taken |->
                IF n \in taken
                THEN Update(IF n \in DOMAIN m.ss THEN m.ss[n] ELSE EmptyDict, kept(n))
                ELSE m.ss[n]]]

\* the identity transition of session(): st.session_state.pop(SESSION_STATE_KEY)
IdentityStep(m, prev_sid, sid_now) ==
    IF prev_sid # "" /\ prev_sid # sid_now THEN [m EXCEPT !.ss = EmptyDict] ELSE m

\* session() up to the yield: [m, raised]
session_enter(m, store, prev_sid, sid_now, seen, get_fails) ==
    LET m1 == IdentityStep(m, prev_sid, sid_now)
        all == load_all(store, sid_now, seen, get_fails)
    IN  IF all.raised THEN [m |-> m1, raised |-> TRUE]
        ELSE [m |-> LoadStep(m1, all.result), raised |-> FALSE]

\* the order in which _save walks the class namespaces
ClassOrder == <<"F", "A", "B", "N">>

\* the payloads of _save(session_id): a copy of every non-empty class namespace
Payloads(ss) ==
    LET IsSaved(c) == c \in DOMAIN ss /\ ss[c] # EmptyDict
        present == SelectSeq(ClassOrder, IsSaved)
    IN  [i \in 1..Len(present) |-> [class_name |-> present[i], data |-> ss[present[i]]]]

-----------------------------------------------------------------------------
(* Operations *)

Engine ==
    [reg |-> registry, cfg |-> config, ss |-> session_state, qp |-> query_params,
     flag |-> is_restoring_url, log |-> <<>>]

NoOp == [op |-> "init", cls |-> "", field |-> "", val |-> None, ret |-> None,
         qp0 |-> EmptyDict, ss0 |-> EmptyDict,
         store0 |-> EmptyDict, prev_sid |-> "", raised |-> FALSE, failed |-> {},
         widgets0 |-> EmptyDict, hooks |-> <<>>, attrs0 |-> EmptyDict]

\* the engine state m becomes the program state; `op` describes the operation
Becomes(m, op) ==
    /\ session_state' = m.ss
    /\ query_params' = m.qp
    /\ is_restoring_url' = m.flag
    /\ last' = [op EXCEPT !.hooks = m.log]
    /\ UNCHANGED <<registry, config>>

\* an operation of the engine on class c, with the state it starts from
EngineOp(name, c) ==
    [NoOp EXCEPT !.op = name, !.cls = c, !.qp0 = query_params, !.ss0 = session_state]

\* the values the page code assigns to a field
WriteValues(c, f) ==
    CASE f = "status" -> {IntV(0), None}
      [] f = "page" -> {IntV(5)}
      [] f \in {"count", "hits"} -> {IntV(20)}
      [] OTHER -> {StrV("x")}

\* the keys and strings put in the URL from outside the engine
EditKeys ==
    {"garbage"} \cup UNION {OwnKeys(config, c) : c \in registry}
    \cup UNION {{model_metadata(c, f).url_key : f \in UrlFields(c)} : c \in registry}
RawStrings(k) ==
    CASE k \in {"status", "pf_status"} -> {"pending", "abc"}
      [] k \in {"page", "pf_page"} -> {"5", "abc"}
      [] OTHER -> {"5"}

\* the URL the page is opened with
InitialUrls == {EmptyDict, [k \in {"page"} |-> "5"]}

\* value = Class.field
Read(c, f) ==
    /\ IsField(c, f)
    /\ LET got == getattr(Engine, c, f)
       IN  Becomes(got.m, [EngineOp("read", c) EXCEPT !.field = f, !.ret = got.ret])
    /\ UNCHANGED <<edits, host_vars, backend_vars>>

\* Class.field = value
Write(c, f, v) ==
    /\ IsField(c, f)
    /\ Becomes(setattr(Engine, c, f, v), [EngineOp("write", c) EXCEPT !.field = f, !.val = v])
    /\ UNCHANGED <<edits, host_vars, backend_vars>>

\* Class._restore_url()
Restore(c) ==
    /\ Becomes(restore_url(Engine, c), EngineOp("restore", c))
    /\ UNCHANGED <<edits, host_vars, backend_vars>>

\* st.query_params[k] = raw, from outside the engine
UrlSet(k, raw) ==
    /\ edits < MaxEdits
    /\ edits' = edits + 1
    /\ Becomes([Engine EXCEPT !.qp = Put(query_params, k, raw)],
               [NoOp EXCEPT !.op = "url_set", !.field = k, !.val = StrV(raw)])
    /\ UNCHANGED <<host_vars, backend_vars>>

\* del st.query_params[k], from outside the engine
UrlDel(k) ==
    /\ edits < MaxEdits
    /\ k \in DOMAIN query_params
    /\ edits' = edits + 1
    /\ Becomes([Engine EXCEPT !.qp = Del(query_params, k)],
               [NoOp EXCEPT !.op = "url_del", !.field = k])
    /\ UNCHANGED <<host_vars, backend_vars>>

\* nothing bound to a widget, no backend configured
NoDump == [cls |-> "", alias |-> FALSE, data |-> EmptyDict, fresh |-> FALSE]
NoCodec ==
    [phase |-> "", dtype |-> "", value_map |-> NoMap, value |-> None, text |-> "",
     out |-> [ok |-> FALSE, v |-> None]]
NoHost ==
    /\ widgets = EmptyDict /\ class_attrs = EmptyDict /\ dumped = NoDump /\ codec = NoCodec
    /\ heap = EmptyDict /\ frames = <<>>
NoBackend ==
    /\ redis = EmptyDict /\ sid_marker = "" /\ pc = "idle" /\ sid = ""
    /\ saves = <<>> /\ last_save_thread = 0 /\ passes = 0 /\ faults = 0 /\ stale = EmptyDict

Init ==
    /\ \E p \in Programs :
        /\ registry = p.reg
        /\ config = p.cfg
        /\ query_params \in InitialUrls
        /\ is_restoring_url = [c \in p.reg |-> FALSE]
    /\ session_state = EmptyDict
    /\ edits = 0
    /\ last = NoOp
    /\ NoHost /\ NoBackend

DoRead == \E c \in registry : \E f \in FieldSet(c) : Read(c, f)
DoWrite == \E c \in registry : \E f \in FieldSet(c) : \E v \in WriteValues(c, f) : Write(c, f, v)
DoRestore == \E c \in registry : Restore(c)
DoUrlSet == \E k \in EditKeys : \E raw \in RawStrings(k) : UrlSet(k, raw)
DoUrlDel == \E k \in EditKeys : UrlDel(k)

Next == DoRead \/ DoWrite \/ DoRestore \/ DoUrlSet \/ DoUrlDel

Spec == Init /\ [][Next]_vars

-----------------------------------------------------------------------------
(* Page evaluations under `with backend.session():` *)

\* the identities the session_id resolver returns
Identities == {"anon", "bob"}

\* the programs run with a backend: A alone, with and without a URL prefix,
\* and A defining on_init
SessionPrograms ==
    {[reg |-> {"A"}, cfg |-> [c \in {"A"} |-> cf]] :
        cf \in {default_config, [default_config EXCEPT !.url_prefix = "pf_"],
                [default_config EXCEPT !.hooks = {"on_init"}]}}

\* what earlier sessions left in the remote store
InitialStores ==
    {EmptyDict,
     save(EmptyDict, "A", "bob", [f \in {"a", "hits"} |-> IF f = "a" THEN StrV("kept") ELSE IntV(42)],
          FALSE).store}

\* session() entry for identity s; SCAN returns `seen` before it raises (every
\* matching key when it does not), GET raises for the classes in get_fails
Enter(s, seen, get_fails) ==
    /\ pc = "idle" /\ passes < MaxPasses
    /\ LET r == session_enter(Engine, redis, sid_marker, s, seen, get_fails)
           names == {ClassOfKey(k, s) : k \in ScanKeys(redis, s)}
       IN  /\ Becomes(r.m, [EngineOp("enter", "") EXCEPT
                              !.val = StrV(s), !.prev_sid = sid_marker, !.raised = r.raised,
                              !.failed = get_fails \cup
                                         {ClassOfKey(k, s) : k \in ScanKeys(redis, s) \ seen}])
           /\ pc' = IF r.raised THEN "idle" ELSE "in"
    /\ stale' = IF sid_marker # "" /\ sid_marker # s THEN session_state ELSE EmptyDict
    /\ sid_marker' = s
    /\ sid' = s
    /\ passes' = passes + 1
    /\ faults' = faults + Cardinality(get_fails) +
                 (IF seen # ScanKeys(redis, s) THEN 1 ELSE 0)
    /\ faults' <= MaxFaults
    /\ UNCHANGED <<edits, host_vars, redis, saves, last_save_thread>>

\* session() exit: _save(sid) snapshots the namespaces and starts a thread
Exit ==
    /\ pc = "in"
    /\ pc' = "idle"
    /\ Becomes(Engine, [EngineOp("exit", "") EXCEPT !.val = StrV(sid)])
    /\ IF Len(Payloads(session_state)) > 0
       THEN /\ saves' = Append(saves, [sid |-> sid, payloads |-> Payloads(session_state), next |-> 1])
            /\ last_save_thread' = Len(saves) + 1
       ELSE UNCHANGED <<saves, last_save_thread>>
    /\ UNCHANGED <<edits, host_vars, redis, sid_marker, sid, passes, faults, stale>>

\* a payload that holds the namespace's own dict: the worker sees what the
\* namespace holds when it runs
payload_data_live(item, ss) ==
    IF item.class_name \in DOMAIN ss THEN ss[item.class_name] ELSE item.data

\* the dict of a payload when the worker serializes it: dict(class_ns), the
\* copy _save made, whatever the namespace ss holds by then
payload_data(item, ss) == item.data

\* one iteration of _save_worker in thread i; `fails`: the client's SET raises
Worker(i, fails) ==
    /\ i \in 1..Len(saves)
    /\ saves[i].next <= Len(saves[i].payloads)
    /\ LET item == saves[i].payloads[saves[i].next]
           r == save(redis, item.class_name, saves[i].sid,
                     payload_data(item, session_state), fails)
       IN  /\ redis' = r.store
           /\ Becomes(Engine, [NoOp EXCEPT !.op = "save", !.cls = item.class_name,
                                 !.val = StrV(saves[i].sid), !.store0 = redis,
                                 !.raised = r.raised,
                                 !.failed = IF fails THEN {item.class_name} ELSE {}])
    /\ saves' = [saves EXCEPT ![i].next = @ + 1]
    /\ faults' = faults + (IF fails THEN 1 ELSE 0)
    /\ faults' <= MaxFaults
    /\ UNCHANGED <<edits, host_vars, sid_marker, pc, sid, last_save_thread, passes, stale>>

\* backend.delete(class_name, session_id) called by the page code
Delete(c, s, fails) ==
    /\ pc = "in"
    /\ RedisKey(c, s) \in DOMAIN redis
    /\ LET r == delete(redis, c, s, fails)
       IN  /\ redis' = r.store
           /\ Becomes(Engine, [NoOp EXCEPT !.op = "delete", !.cls = c, !.val = StrV(s),
                                 !.store0 = redis, !.raised = r.raised,
                                 !.failed = IF fails THEN {c} ELSE {}])
    /\ faults' = faults + (IF fails THEN 1 ELSE 0)
    /\ faults' <= MaxFaults
    /\ UNCHANGED <<edits, host_vars, sid_marker, pc, sid, saves, last_save_thread, passes, stale>>

SessionInit ==
    /\ \E p \in SessionPrograms :
        /\ registry = p.reg
        /\ config = p.cfg
        /\ is_restoring_url = [c \in p.reg |-> FALSE]
    /\ query_params = EmptyDict
    /\ session_state = EmptyDict
    /\ edits = 0
    /\ last = NoOp
    /\ NoHost
    /\ redis \in InitialStores
    /\ sid_marker = "" /\ pc = "idle" /\ sid = ""
    /\ saves = <<>> /\ last_save_thread = 0 /\ passes = 0 /\ faults = 0 /\ stale = EmptyDict

DoEnter ==
    \E s \in Identities : \E seen \in SUBSET ScanKeys(redis, s) :
        \E get_fails \in SUBSET {ClassOfKey(k, s) : k \in seen} : Enter(s, seen, get_fails)
DoExit == Exit
DoWorker == \E i \in 1..Len(saves) : \E fails \in BOOLEAN : Worker(i, fails)
DoDelete == \E c \in registry : \E fails \in BOOLEAN : Delete(c, sid, fails)
PageRead == pc = "in" /\ DoRead
PageWrite == pc = "in" /\ DoWrite
Navigate == pc = "idle" /\ (DoUrlSet \/ DoUrlDel)

SessionNext == DoEnter \/ DoExit \/ DoWorker \/ DoDelete \/ PageRead \/ PageWrite \/ Navigate

SessionSpec == SessionInit /\ [][SessionNext]_vars

-----------------------------------------------------------------------------
(* The page code using reset, bind and focus *)

\* the classes and Configs of the pages that reset, bind and focus
ApiPrograms ==
    {[reg |-> {"A"}, cfg |-> [c \in {"A"} |-> cf]] :
        cf \in {default_config,
               [default_config EXCEPT !.restore_url_on_touch = FALSE],
               [Selfless EXCEPT !.url_prefix = "pf_"]}}
    \cup
    {[reg |-> {"A", "B"}, cfg |-> [c \in {"A", "B"} |-> IF c = "A" THEN p[1] ELSE p[2]]] :
        p \in {<<Selfless, [Selfless EXCEPT !.share_url_with = <<ShareRef("A")>>]>>}}
    \cup
    {[reg |-> {"N"}, cfg |-> [c \in {"N"} |-> cf]] :
        cf \in {default_config, [default_config EXCEPT !.ignore_none_url = FALSE]}}

\* the fields the page code names in reset and bind; "nope" is not declared
NamedFields(c) == FieldSet(c) \cup {"nope"}

\* Class.reset(field); field = "" is reset()
Reset(c, field) ==
    /\ \E m \in {reset(Engine, c, field)} :
          Becomes(m, [EngineOp("reset", c) EXCEPT !.field = field])
    /\ UNCHANGED <<edits, host_vars, backend_vars>>

\* key, callback = Class.bind(field)
Bind(c, field) ==
    /\ \E b \in {bind(Engine, widgets, c, field)} :
           /\ Becomes(b.m, [EngineOp("bind", c) EXCEPT !.field = field, !.ret = b.ret,
                                                       !.raised = b.raised, !.widgets0 = widgets])
           /\ widgets' = b.w
    /\ UNCHANGED <<edits, class_attrs, dumped, codec, heap, frames, backend_vars>>

\* the host runs the callback of a bound widget
Callback(c, field) ==
    /\ WidgetKey(c, field) \in DOMAIN widgets
    /\ Becomes(callback(Engine, widgets, c, field),
               [EngineOp("callback", c) EXCEPT !.field = field, !.val = widgets[WidgetKey(c, field)],
                                               !.widgets0 = widgets])
    /\ UNCHANGED <<edits, host_vars, backend_vars>>

\* st.session_state[widget_key] = v: the user edits the widget, or the page
\* code seeds the key itself
WidgetSet(c, field, v) ==
    /\ edits < MaxEdits
    /\ edits' = edits + 1
    /\ widgets' = Put(widgets, WidgetKey(c, field), v)
    /\ Becomes(Engine, [NoOp EXCEPT !.op = "widget_set", !.cls = c, !.field = field, !.val = v,
                                    !.widgets0 = widgets])
    /\ UNCHANGED <<class_attrs, dumped, codec, heap, frames, backend_vars>>

\* Class.focus()
Focus(c) ==
    /\ Becomes(focus(Engine, c), EngineOp("focus", c))
    /\ UNCHANGED <<edits, host_vars, backend_vars>>

ApiInit ==
    /\ \E p \in ApiPrograms :
        /\ registry = p.reg
        /\ config = p.cfg
        /\ is_restoring_url = [c \in p.reg |-> FALSE]
    /\ query_params = EmptyDict
    /\ session_state = EmptyDict
    /\ edits = 0
    /\ last = NoOp
    /\ NoHost /\ NoBackend

DoReset == \E c \in registry : \E field \in FieldSet(c) \cup {""} : Reset(c, field)
DoBind == \E c \in registry : \E field \in NamedFields(c) : Bind(c, field)
DoCallback == \E c \in registry : \E field \in FieldSet(c) : Callback(c, field)
DoWidgetSet ==
    \E c \in registry : \E field \in FieldSet(c) : \E v \in WriteValues(c, field) :
        WidgetSet(c, field, v)
DoFocus == \E c \in registry : Focus(c)

ApiNext ==
    DoReset \/ DoBind \/ DoCallback \/ DoWidgetSet \/ DoFocus \/ DoWrite \/ DoUrlSet \/ DoUrlDel

ApiSpec == ApiInit /\ [][ApiNext]_vars

-----------------------------------------------------------------------------
(* The page code of classes that define hooks, read and assign undeclared   *)
(* names and take dumps                                                     *)

AllHooks == {"on_init", "before_set", "on_change"}
Hooked(cf) == [cf EXCEPT !.hooks = AllHooks]

ClassPrograms ==
    {[reg |-> {"A"}, cfg |-> [c \in {"A"} |-> cf]] :
        cf \in {Hooked(default_config),
               Hooked([default_config EXCEPT !.restore_url_on_touch = FALSE])}}
    \cup
    {[reg |-> {"N"}, cfg |-> [c \in {"N"} |-> Hooked(default_config)]]}

\* the values the page code assigns: falsy ones, and True where 1 is assigned
AssignValues(c, f) ==
    CASE f = "hits" -> {IntV(0), IntV(1), BoolV(TRUE)}
      [] f = "a" -> {StrV("x"), StrV("")}
      [] f = "opt" -> {StrV("x"), None}
      [] OTHER -> {StrV("x")}

\* a name no class declares
UnknownNames == {"nope"}

\* value = Class.name for a name that is not a declared field
ReadUnknown(c, name) ==
    /\ ~IsField(c, name)
    /\ \E r \in {getattr_unknown(Engine, class_attrs, c, name)} :
          Becomes(r.m, [EngineOp("read_unknown", c) EXCEPT
                           !.field = name, !.ret = r.ret, !.raised = r.raised,
                           !.attrs0 = class_attrs])
    /\ UNCHANGED <<edits, host_vars, backend_vars>>

\* Class.name = value for a name that is not a declared field; the run makes
\* a bounded number of such assignments
WriteUnknown(c, name, v) ==
    /\ ~IsField(c, name)
    /\ edits < MaxEdits
    /\ edits' = edits + 1
    /\ \E r \in {setattr_unknown(Engine, class_attrs, c, name, v)} :
          /\ class_attrs' = r.attrs
          /\ Becomes(r.m, [EngineOp("write_unknown", c) EXCEPT
                              !.field = name, !.val = v, !.raised = r.raised,
                              !.attrs0 = class_attrs])
    /\ UNCHANGED <<widgets, dumped, codec, heap, frames, backend_vars>>

\* d = Class.dump(); the run takes a bounded number of dumps
Dump(c) ==
    /\ edits < MaxEdits
    /\ edits' = edits + 1
    /\ \E d \in {dump(Engine, c)} :
          /\ Becomes(d.m, EngineOp("dump", c))
          /\ dumped' = [cls |-> c, alias |-> d.alias, data |-> d.data, fresh |-> TRUE]
    /\ UNCHANGED <<widgets, class_attrs, codec, heap, frames, backend_vars>>

\* d[k] = v or del d[k] on the mapping the last dump returned, once per dump;
\* a mapping that is the namespace dict itself changes the namespace with it
MutateDump(k, v, remove) ==
    /\ dumped.cls # "" /\ dumped.fresh
    /\ remove => k \in DOMAIN dumped.data
    /\ LET data == IF remove THEN Del(dumped.data, k) ELSE Put(dumped.data, k, v)
       IN  /\ dumped' = [dumped EXCEPT !.data = data, !.fresh = FALSE]
           /\ Becomes(IF dumped.alias /\ dumped.cls \in DOMAIN session_state
                      THEN [Engine EXCEPT !.ss[dumped.cls] = data] ELSE Engine,
                      [EngineOp("mutate_dump", dumped.cls) EXCEPT !.field = k, !.val = v])
    /\ UNCHANGED <<edits, widgets, class_attrs, codec, heap, frames, backend_vars>>

ClassInit ==
    /\ \E p \in ClassPrograms :
        /\ registry = p.reg
        /\ config = p.cfg
        /\ is_restoring_url = [c \in p.reg |-> FALSE]
    /\ query_params = EmptyDict
    /\ session_state = EmptyDict
    /\ edits = 0
    /\ last = NoOp
    /\ NoHost /\ NoBackend

DoAssign == \E c \in registry : \E f \in FieldSet(c) : \E v \in AssignValues(c, f) : Write(c, f, v)
DoReadUnknown == \E c \in registry : \E name \in UnknownNames : ReadUnknown(c, name)
DoWriteUnknown == \E c \in registry : \E name \in UnknownNames : WriteUnknown(c, name, IntV(7))
DoDump == \E c \in registry : Dump(c)
DoMutateDump ==
    \E k \in FieldSet(dumped.cls) \cup {"extra"} : \E remove \in BOOLEAN :
        MutateDump(k, StrV("zzz"), remove)

ClassNext ==
    \/ DoRead \/ DoAssign \/ DoRestore \/ DoUrlSet \/ DoUrlDel
    \/ DoReadUnknown \/ DoWriteUnknown \/ DoDump \/ DoMutateDump

ClassSpec == ClassInit /\ [][ClassNext]_vars

-----------------------------------------------------------------------------
(* The codec on its own: a value of a declared type is encoded with          *)
(* convert_to_URL and the text is decoded with convert_from_URL, as          *)
(* _sync_url and _initialize_attribute do for a field with a URL key.        *)

UrlMap == <<[k |-> StrV("internal_1"), s |-> "url_1"], [k |-> StrV("internal_2"), s |-> "url_2"]>>
BoolMap == <<[k |-> BoolV(TRUE), s |-> "yes"], [k |-> BoolV(FALSE), s |-> "no"]>>
DateMap == <<[k |-> DateV(2024, 1, 31), s |-> "eom"]>>

\* the values encoded without a value map, by declared type
PlainValues(T) ==
    CASE T = "str" -> {StrV(""), StrV("hello"), StrV("a||b"), StrV("True"), StrV("12")}
      [] T = "int" -> {IntV(0 - 5), IntV(0), IntV(7), IntV(123)}
      [] T = "bool" -> {BoolV(TRUE), BoolV(FALSE)}
      [] T = "date" -> {DateV(2024, 1, 31), DateV(2024, 2, 29), DateV(1, 1, 1)}
      [] T = "time" -> {TimeV(10, 5, 0, 0), TimeV(23, 59, 59, 500), TimeV(0, 0, 0, 0)}
      [] T = "datetime" ->
            {DateTimeV(2024, 1, 31, 10, 5, 0, 0), DateTimeV(2024, 1, 31, 10, 5, 0, 500000)}
      [] T \in {"list[str]", "List[str]"} ->
            {ListV(<<>>), ListV(<<StrV("")>>), ListV(<<StrV("a||b"), StrV("c")>>),
             ListV(<<StrV("a\"b\\")>>), ListV(<<StrV("a"), StrV("b"), StrV("c")>>)}
      [] T = "list[int]" -> {ListV(<<IntV(1), IntV(2), IntV(3)>>), ListV(<<IntV(0 - 1)>>)}
      [] T = "list[bool]" -> {ListV(<<BoolV(TRUE), BoolV(FALSE)>>)}
      [] T = "list[date]" -> {ListV(<<DateV(2024, 1, 31)>>)}
      [] T = "set[int]" -> {SetV(<<IntV(1), IntV(2)>>), SetV(<<>>)}
      [] T = "set[str]" -> {SetV(<<StrV("a||b"), StrV("c")>>)}
      [] T = "tuple[int, ...]" -> {TupleV(<<IntV(1), IntV(2)>>), TupleV(<<>>)}
      [] T = "tuple[str, ...]" -> {TupleV(<<StrV("a"), StrV("||")>>)}
      [] T = "list[list[int]]" ->
            {ListV(<<ListV(<<IntV(1), IntV(2)>>), ListV(<<IntV(3), IntV(4)>>)>>),
             ListV(<<ListV(<<>>)>>)}
      [] T = "list[list[str]]" -> {ListV(<<ListV(<<StrV("a||b")>>), ListV(<<StrV("c")>>)>>)}
      [] T = "list" -> {ListV(<<StrV("a"), StrV("b")>>)}
      [] T = "List" -> {ListV(<<StrV("a"), StrV("b")>>)}
      [] OTHER -> {TupleV(<<IntV(1), StrV("a")>>)}

PlainTypes ==
    {"str", "int", "bool", "date", "time", "datetime", "list[str]", "List[str]", "list[int]",
     "list[bool]", "list[date]", "set[int]", "set[str]", "tuple[int, ...]", "tuple[str, ...]",
     "list[list[int]]", "list[list[str]]", "list", "List", "tuple[int, str]"}

\* the fields with a value map: [dtype, value_map, value]
MappedInputs ==
    {[dtype |-> "int", value_map |-> StatusMap, value |-> IntV(n)] : n \in {0, 1, 2, 5}}
    \cup {[dtype |-> "str", value_map |-> UrlMap, value |-> StrV(x)] :
            x \in {"internal_1", "internal_2", "other"}}
    \cup {[dtype |-> "bool", value_map |-> BoolMap, value |-> BoolV(b)] : b \in BOOLEAN}
    \cup {[dtype |-> "date", value_map |-> DateMap, value |-> DateV(2024, 1, d)] : d \in {30, 31}}
    \cup {[dtype |-> "list[int]", value_map |-> StatusMap, value |-> ListV(<<IntV(1), IntV(0)>>)],
          [dtype |-> "list[str]", value_map |-> UrlMap, value |-> ListV(<<StrV("internal_1")>>)],
          [dtype |-> "tuple[int, ...]", value_map |-> StatusMap,
           value |-> TupleV(<<IntV(2), IntV(2)>>)]}

CodecInputs ==
    UNION {{[dtype |-> T, value_map |-> NoMap, value |-> v] : v \in PlainValues(T)} :
              T \in PlainTypes}
    \cup MappedInputs

\* the orders in which the items of a value are enumerated: any order for a
\* set, the order of the items for the other values
Iterations(value) ==
    IF value.t # "set" THEN {value}
    ELSE {[value EXCEPT !.items = [j \in 1..Len(value.items) |-> value.items[order[j]]]] :
            order \in {f \in [1..Len(value.items) -> 1..Len(value.items)] :
                          \A a, b \in 1..Len(value.items) : f[a] = f[b] => a = b}}

\* url_value = convert_to_URL(key, value, value_map)
Encode(iteration) ==
    /\ codec.phase = "value"
    /\ codec' = [codec EXCEPT !.phase = "text",
                              !.text = convert_to_URL(iteration, codec.value_map)]
    /\ UNCHANGED <<registry, config, session_state, query_params, is_restoring_url, edits, last,
                   widgets, class_attrs, dumped, heap, frames, backend_vars>>

\* final_value = convert_from_URL(field, url_value, dtype, value_map)
Decode ==
    /\ codec.phase = "text"
    /\ codec' = [codec EXCEPT !.phase = "done",
                              !.out = convert_from_URL(codec.text, codec.dtype, codec.value_map)]
    /\ UNCHANGED <<registry, config, session_state, query_params, is_restoring_url, edits, last,
                   widgets, class_attrs, dumped, heap, frames, backend_vars>>

CodecInit ==
    /\ registry = {}
    /\ config = EmptyDict
    /\ is_restoring_url = EmptyDict
    /\ query_params = EmptyDict
    /\ session_state = EmptyDict
    /\ edits = 0
    /\ last = NoOp
    /\ widgets = EmptyDict /\ class_attrs = EmptyDict /\ dumped = NoDump /\ heap = EmptyDict /\ frames = <<>>
    /\ \E input \in CodecInputs :
          codec = [NoCodec EXCEPT !.phase = "value", !.dtype = input.dtype,
                                  !.value_map = input.value_map, !.value = input.value]
    /\ NoBackend

DoEncode == \E iteration \in Iterations(codec.value) : Encode(iteration)
DoDecode == Decode

CodecNext == DoEncode \/ DoDecode

CodecSpec == CodecInit /\ [][CodecNext]_vars

-----------------------------------------------------------------------------
(* The engine's methods call by call.  A frame is one method call in        *)
(* progress: [fn, cls, key, val, pc, i, ret]; the last frame of `frames` is *)
(* the method that is running, pc is the place it goes on from, i the       *)
(* position of the loop of _restore_url, ret the value its last call        *)
(* returned.  The classes of these programs define no hooks.                *)

\* what a method call by call leaves alone
step_frame ==
    <<registry, config, edits, widgets, class_attrs, dumped, codec, heap, backend_vars>>

Frame(fn, c, key, val) ==
    [fn |-> fn, cls |-> c, key |-> key, val |-> val, pc |-> "enter", i |-> 0, ret |-> None]

Top == frames[Len(frames)]
Callers == SubSeq(frames, 1, Len(frames) - 1)

\* the running method goes on as frame `top`
Continue(top) == frames' = Append(Callers, top) /\ UNCHANGED last

\* the running method, left as frame `top`, calls `callee`
Invoke(top, callee) == frames' = Append(Append(Callers, top), callee) /\ UNCHANGED last

\* the running method returns `value` to its caller, or to the page's code
Return(value) ==
    IF Len(frames) = 1
    THEN frames' = <<>> /\ last' = [last EXCEPT !.ret = value]
    ELSE frames' = [Callers EXCEPT ![Len(frames) - 1].ret = value] /\ UNCHANGED last

\* `if getattr(cls, "_is_restoring_url", False): return` that never returns early
restoring_unguarded(flag, c) == FALSE

\* getattr(cls, "_is_restoring_url", False)
restoring(flag, c) == flag[c]

\* the frames of _restore_url that are inside its try block
InTry(stack, c) ==
    {j \in 1..Len(stack) :
        stack[j].fn = "restore_url" /\ stack[j].cls = c /\ stack[j].pc \in {"loop", "got"}}

\* an exception that leaves the flags as they are
unwind_no_finally(flag, stack) == flag

\* the flags after an exception has left every frame of `stack`: the finally
\* clause of each _restore_url it leaves has run
unwind(flag, stack) == [c \in DOMAIN flag |-> IF InTry(stack, c) # {} THEN FALSE ELSE flag[c]]

\* value = Class.field, Class.field = value, Class._restore_url(): the page's
\* code calls into the engine
CallRead(c, f) ==
    /\ frames = <<>>
    /\ frames' = <<Frame("getattr", c, f, None)>>
    /\ last' = [EngineOp("read", c) EXCEPT !.field = f]
    /\ UNCHANGED <<session_state, query_params, is_restoring_url, step_frame>>

CallWrite(c, f, v) ==
    /\ frames = <<>>
    /\ frames' = <<Frame("setattr", c, f, v)>>
    /\ last' = [EngineOp("write", c) EXCEPT !.field = f, !.val = v]
    /\ UNCHANGED <<session_state, query_params, is_restoring_url, step_frame>>

CallRestore(c) ==
    /\ frames = <<>>
    /\ frames' = <<Frame("restore_url", c, "", None)>>
    /\ last' = EngineOp("restore", c)
    /\ UNCHANGED <<session_state, query_params, is_restoring_url, step_frame>>

\* __getattr__ on a declared field
StepGetattr ==
    /\ frames # <<>> /\ Top.fn = "getattr"
    /\ IF Top.pc = "enter"
       THEN /\ session_state' = ensure_storage(Engine, Top.cls).ss
            /\ IF Top.key \in DOMAIN session_state'[Top.cls]
               THEN IF config[Top.cls].restore_url_on_touch
                    THEN Invoke([Top EXCEPT !.pc = "return_stored"],
                                Frame("restore_url", Top.cls, "", None))
                    ELSE Return(session_state'[Top.cls][Top.key])
               ELSE Invoke([Top EXCEPT !.pc = "return_initialized"],
                           Frame("initialize_attribute", Top.cls, Top.key, None))
       ELSE /\ IF Top.pc = "return_stored"
               THEN Return(session_state[Top.cls][Top.key])
               ELSE Return(Top.ret)
            /\ UNCHANGED session_state
    /\ UNCHANGED <<query_params, is_restoring_url, step_frame>>

\* __setattr__ on a declared field
StepSetattr ==
    /\ frames # <<>> /\ Top.fn = "setattr"
    /\ CASE Top.pc = "enter" ->
              /\ session_state' = [ensure_storage(Engine, Top.cls).ss EXCEPT
                                      ![Top.cls] = Put(@, Top.key, Top.val)]
              /\ Continue([Top EXCEPT !.pc = "sync"])
              /\ UNCHANGED query_params
         [] Top.pc = "sync" ->
              /\ query_params' = sync_url(Engine, Top.cls, Top.key, Top.val).qp
              /\ IF config[Top.cls].restore_url_on_touch
                 THEN Invoke([Top EXCEPT !.pc = "on_change"],
                             Frame("restore_url", Top.cls, "", None))
                 ELSE Return(None)
              /\ UNCHANGED session_state
         [] OTHER ->
              /\ Return(None)
              /\ UNCHANGED <<session_state, query_params>>
    /\ UNCHANGED <<is_restoring_url, step_frame>>

\* _initialize_attribute(field)
StepInitialize ==
    /\ frames # <<>> /\ Top.fn = "initialize_attribute"
    /\ IF Top.pc = "enter"
       THEN \E value \in {value_to_set(url_value(Engine, Top.cls, Top.key),
                                       model_metadata(Top.cls, Top.key).default)} :
               Invoke([Top EXCEPT !.pc = "return", !.val = value],
                      Frame("setattr", Top.cls, Top.key, value))
       ELSE Return(Top.val)
    /\ UNCHANGED <<session_state, query_params, is_restoring_url, step_frame>>

\* the field the loop of _restore_url is at
LoopField(top) == FieldNames(top.cls)[top.i]

\* _restore_url
StepRestore ==
    /\ frames # <<>> /\ Top.fn = "restore_url"
    /\ CASE Top.pc = "enter" ->
              /\ IF restoring(is_restoring_url, Top.cls)
                 THEN Return(None) /\ UNCHANGED is_restoring_url
                 ELSE /\ is_restoring_url' = [is_restoring_url EXCEPT ![Top.cls] = TRUE]
                      /\ Continue([Top EXCEPT !.pc = "loop", !.i = 1])
              /\ UNCHANGED query_params
         [] Top.pc = "loop" ->
              /\ IF Top.i > Len(FieldNames(Top.cls))
                 THEN /\ is_restoring_url' = [is_restoring_url EXCEPT ![Top.cls] = FALSE]
                      /\ Return(None)
                 ELSE /\ IF model_metadata(Top.cls, LoopField(Top)).url_key = ""
                         THEN Continue([Top EXCEPT !.i = @ + 1])
                         ELSE Invoke([Top EXCEPT !.pc = "got"],
                                     Frame("getattr", Top.cls, LoopField(Top), None))
                      /\ UNCHANGED is_restoring_url
              /\ UNCHANGED query_params
         [] OTHER ->
              /\ query_params' = restore_field([m |-> Engine, ret |-> Top.ret], Top.cls,
                                               model_metadata(Top.cls, LoopField(Top))).qp
              /\ Continue([Top EXCEPT !.pc = "loop", !.i = @ + 1])
              /\ UNCHANGED is_restoring_url
    /\ UNCHANGED <<session_state, step_frame>>

\* the running method is about to call convert_to_URL and assign the parameter
Converting ==
    /\ frames # <<>>
    /\ \/ /\ Top.fn = "setattr" /\ Top.pc = "sync"
          /\ model_metadata(Top.cls, Top.key).url_key # ""
          /\ ~(Top.val = None /\ config[Top.cls].ignore_none_url)
       \/ /\ Top.fn = "restore_url" /\ Top.pc = "got"
          /\ restore_field([m |-> Engine, ret |-> Top.ret], Top.cls,
                           model_metadata(Top.cls, LoopField(Top))).qp # query_params

\* convert_to_URL or the assignment of the parameter raises: the exception
\* leaves every method in progress and reaches the page's code.  In _sync_url
\* the selfish cleanup has already run.
Raise ==
    /\ Converting
    /\ query_params' = IF Top.fn = "setattr" /\ config[Top.cls].url_selfish
                       THEN Cleanup(query_params, AllowedKeys(registry, config, Top.cls))
                       ELSE query_params
    /\ is_restoring_url' = unwind(is_restoring_url, frames)
    /\ frames' = <<>>
    /\ last' = [last EXCEPT !.raised = TRUE]
    /\ UNCHANGED <<session_state, step_frame>>

\* the URL the page is opened with: also a value that does not decode next to
\* a foreign key
StepUrls == InitialUrls \cup {[k \in {"status", "garbage"} |-> IF k = "status" THEN "abc" ELSE "5"]}

StepInit ==
    /\ \E p \in Programs :
        /\ registry = p.reg
        /\ config = p.cfg
        /\ query_params \in StepUrls
        /\ is_restoring_url = [c \in p.reg |-> FALSE]
    /\ session_state = EmptyDict
    /\ edits = 0
    /\ last = NoOp
    /\ NoHost /\ NoBackend

DoCallRead == \E c \in registry : \E f \in FieldSet(c) : CallRead(c, f)
DoCallWrite ==
    \E c \in registry : \E f \in FieldSet(c) : \E v \in WriteValues(c, f) : CallWrite(c, f, v)
DoCallRestore == \E c \in registry : CallRestore(c)

\* the interpreter runs the method on top of the stack
Run == StepGetattr \/ StepSetattr \/ StepInitialize \/ StepRestore

StepNext == DoCallRead \/ DoCallWrite \/ DoCallRestore \/ Run \/ Raise

\* the interpreter does not stop in the middle of a call
StepSpec == StepInit /\ [][StepNext]_vars /\ WF_vars(Run)

-----------------------------------------------------------------------------
(* The page code of a class whose default is a list object.  heap[0] is the *)
(* object the class declares as default; the namespace and the page hold    *)
(* references.                                                              *)

\* objects in one run
MaxObjects == 4

\* items of one list
MaxItems == 2

\* tags = StateVar(default=["a"])
DeclaredDefault == ListV(<<StrV("a")>>)

AliasPrograms ==
    {[reg |-> {"L"}, cfg |-> [c \in {"L"} |-> cf]] :
        cf \in {default_config, [default_config EXCEPT !.restore_url_on_touch = FALSE]}}

\* the id of the next object
NewId(h) == Cardinality(DOMAIN h)

\* copy.deepcopy that returns the object itself
deepcopy_same(h, value) == [heap |-> h, v |-> value]

\* copy.deepcopy(value): [heap, v]; an immutable value is its own copy
deepcopy(h, value) ==
    IF value.t = "ref"
    THEN [heap |-> Put(h, NewId(h), h[value.i]), v |-> RefV(NewId(h))]
    ELSE [heap |-> h, v |-> value]

\* value = Class.field: a stored field is returned; a field that is not
\* stored goes through _initialize_attribute, with the copy of the default
AliasRead(c, f) ==
    /\ IsField(c, f)
    /\ \E m1 \in {ensure_storage(Engine, c)} :
          IF f \in DOMAIN m1.ss[c]
          THEN /\ \E got \in {get_stored(m1, c, f)} :
                     Becomes(got.m, [EngineOp("read", c) EXCEPT !.field = f, !.ret = got.ret])
               /\ UNCHANGED heap
          ELSE \E conv \in {url_value(m1, c, f)} :
                  IF conv.ok /\ conv.v # None
                  THEN /\ \E got \in {set_and_return(m1, c, f, conv.v)} :
                             Becomes(got.m, [EngineOp("read", c) EXCEPT !.field = f,
                                                                        !.ret = got.ret])
                       /\ UNCHANGED heap
                  ELSE /\ model_metadata(c, f).default.t = "ref" =>
                              Cardinality(DOMAIN heap) < MaxObjects
                       /\ \E copied \in {deepcopy(heap, model_metadata(c, f).default)} :
                             /\ heap' = copied.heap
                             /\ \E got \in {set_and_return(m1, c, f, copied.v)} :
                                   Becomes(got.m, [EngineOp("read", c) EXCEPT !.field = f,
                                                                              !.ret = got.ret])
    /\ UNCHANGED <<edits, widgets, class_attrs, dumped, codec, frames, backend_vars>>

\* Class.tags = ["n"]: the page assigns a new list; Class.q = "x"
AliasWrite(c, f) ==
    /\ IsField(c, f)
    /\ IF model_metadata(c, f).dtype = "list"
       THEN /\ Cardinality(DOMAIN heap) < MaxObjects
            /\ heap' = Put(heap, NewId(heap), ListV(<<StrV("n")>>))
            /\ Becomes(setattr(Engine, c, f, RefV(NewId(heap))),
                       [EngineOp("write", c) EXCEPT !.field = f, !.val = RefV(NewId(heap))])
       ELSE /\ Becomes(setattr(Engine, c, f, StrV("x")),
                       [EngineOp("write", c) EXCEPT !.field = f, !.val = StrV("x")])
            /\ UNCHANGED heap
    /\ UNCHANGED <<edits, widgets, class_attrs, dumped, codec, frames, backend_vars>>

\* Class.reset(field); field = "" is reset()
AliasReset(c, field) ==
    /\ \E m \in {reset(Engine, c, field)} :
          Becomes(m, [EngineOp("reset", c) EXCEPT !.field = field])
    /\ UNCHANGED <<edits, host_vars, backend_vars>>

\* value.append("x") on the list the last read returned
Mutate ==
    /\ last.op = "read" /\ last.ret.t = "ref"
    /\ Len(heap[last.ret.i].items) < MaxItems
    /\ heap' = [heap EXCEPT ![last.ret.i] = ListV(Append(@.items, StrV("x")))]
    /\ last' = [NoOp EXCEPT !.op = "mutate", !.val = last.ret,
                            !.qp0 = query_params, !.ss0 = session_state]
    /\ UNCHANGED <<registry, config, session_state, query_params, is_restoring_url, edits,
                   widgets, class_attrs, dumped, codec, frames, backend_vars>>

\* a new browser session: st.session_state starts empty
NewSession ==
    /\ session_state # EmptyDict
    /\ Becomes([Engine EXCEPT !.ss = EmptyDict], [NoOp EXCEPT !.op = "new_session"])
    /\ UNCHANGED <<edits, host_vars, backend_vars>>

AliasInit ==
    /\ \E p \in AliasPrograms :
        /\ registry = p.reg
        /\ config = p.cfg
        /\ is_restoring_url = [c \in p.reg |-> FALSE]
    /\ query_params \in {EmptyDict, [k \in {"q"} |-> "5"]}
    /\ session_state = EmptyDict
    /\ edits = 0
    /\ last = NoOp
    /\ widgets = EmptyDict /\ class_attrs = EmptyDict /\ dumped = NoDump /\ codec = NoCodec
    /\ heap = [n \in {0} |-> DeclaredDefault]
    /\ frames = <<>>
    /\ NoBackend

DoAliasRead == \E c \in registry : \E f \in FieldSet(c) : AliasRead(c, f)
DoAliasWrite == \E c \in registry : \E f \in FieldSet(c) : AliasWrite(c, f)
DoAliasReset == \E c \in registry : \E field \in FieldSet(c) \cup {""} : AliasReset(c, field)

AliasNext == DoAliasRead \/ DoAliasWrite \/ DoAliasReset \/ Mutate \/ NewSession

AliasSpec == AliasInit /\ [][AliasNext]_vars

-----------------------------------------------------------------------------
(* Class definition: PageStateMeta.__init__ and PageState.schema           *)
(*                                                                         *)
(* class_attrs holds each class's own __dict__ entries ("__bases__" and,   *)
(* when the class has its own, "_model_metadata", a reference), heap the   *)
(* metadata dicts: object id -> field name -> metadata.                    *)

\* classes one program defines, in the order of their class statements
MaxClasses == 3
DefNames == <<"P1", "C1", "C2", "C3">>

\* the StateVar attributes of a class body: field name -> default
FieldDecls ==
    UNION {[S -> {IntV(1), IntV(2)}] : S \in SUBSET {"x"}} \cup
    {Put(d, "z", IntV(3)) : d \in UNION {[S -> {IntV(1), IntV(2)}] : S \in SUBSET {"x"}}}

\* a class body: its StateVar attributes, and whether it assigns
\* _model_metadata = {} itself
ClassBodies == {[fields |-> fs, own |-> o] : fs \in FieldDecls, o \in BOOLEAN}

\* the attribute `name` of class c as Python resolves it: the class's own
\* __dict__, then its base's; PageState itself has no _model_metadata, and
\* PageStateMeta.__getattr__ raises AttributeError for that name (None here)
RECURSIVE class_getattr(_, _, _)
class_getattr(attrs, c, name) ==
    IF c \notin DOMAIN attrs THEN None
    ELSE IF name \in DOMAIN attrs[c] THEN attrs[c][name]
    ELSE class_getattr(attrs, attrs[c]["__bases__"].s, name)

\* hasattr(cls, name)
hasattr(attrs, c, name) == class_getattr(attrs, c, name) # None

\* the metadata of one StateVar: annotated int, no url_key, no value_map
field_metadata(default) ==
    [default |-> default, url_key |-> "", value_map |-> NoMap, dtype |-> "int"]

\* PageStateMeta.__init__(cls, name, bases, dct): type.__init__ has made the
\* class with the entries of its body; the class gets a new _model_metadata
\* dict only when hasattr finds none, and the StateVar attributes of the body
\* are stored in cls._model_metadata, whichever object that name resolves to
meta_init(attrs, h, name, base, dct) ==
    LET made == Put(attrs, name,
                    IF dct.own
                    THEN [k \in {"__bases__", "_model_metadata"} |->
                            IF k = "__bases__" THEN StrV(base) ELSE RefV(NewId(h))]
                    ELSE [k \in {"__bases__"} |-> StrV(base)])
        h1 == IF dct.own THEN Put(h, NewId(h), EmptyDict) ELSE h
        fresh == ~hasattr(made, name, "_model_metadata")
        attrs2 == IF fresh
                  THEN [made EXCEPT ![name] = Put(@, "_model_metadata", RefV(NewId(h1)))]
                  ELSE made
        h2 == IF fresh THEN Put(h1, NewId(h1), EmptyDict) ELSE h1
        ref == class_getattr(attrs2, name, "_model_metadata").i
    IN  [attrs |-> attrs2,
         heap |-> [h2 EXCEPT ![ref] =
                      Update(@, [f \in DOMAIN dct.fields |-> field_metadata(dct.fields[f])])]]

\* PageState.schema(): return cls._model_metadata
schema(attrs, c) == class_getattr(attrs, c, "_model_metadata")

\* class name(base): <body>
Define(name, base, dct) ==
    /\ name \notin registry
    /\ \E r \in {meta_init(class_attrs, heap, name, base, dct)} :
          /\ class_attrs' = r.attrs
          /\ heap' = r.heap
    /\ registry' = registry \cup {name}
    /\ config' = [c \in registry \cup {name} |-> IF c = name THEN default_config ELSE config[c]]
    /\ is_restoring_url' = [c \in registry \cup {name} |-> FALSE]
    /\ last' = [NoOp EXCEPT !.op = "define", !.cls = name, !.val = StrV(base),
                            !.attrs0 = class_attrs]
    /\ UNCHANGED <<session_state, query_params, edits, widgets, dumped, codec, frames,
                   backend_vars>>

\* Class.schema()
Schema(c) ==
    /\ last' = [NoOp EXCEPT !.op = "schema", !.cls = c, !.ret = schema(class_attrs, c),
                            !.attrs0 = class_attrs]
    /\ UNCHANGED <<registry, config, session_state, query_params, is_restoring_url, edits,
                   host_vars, backend_vars>>

DefInit ==
    /\ registry = {} /\ config = EmptyDict /\ is_restoring_url = EmptyDict
    /\ query_params = EmptyDict /\ session_state = EmptyDict
    /\ edits = 0 /\ last = NoOp
    /\ NoHost /\ NoBackend

DoDefine ==
    /\ Cardinality(registry) < MaxClasses
    /\ \E base \in {"PageState"} \cup registry : \E dct \in ClassBodies :
          Define(DefNames[Cardinality(registry) + 1], base, dct)
DoSchema == \E c \in registry : Schema(c)

DefNext == DoDefine \/ DoSchema

DefSpec == DefInit /\ [][DefNext]_vars

-----------------------------------------------------------------------------
(* Vocabulary of the properties *)

\* the key a field is written under: prefix + url_key
PrefixedKey(c, f) == config[c].url_prefix \o model_metadata(c, f).url_key

\* encode(value, value_map) of field f, with None written as the empty string
Encoded(c, f, value) ==
    convert_to_URL(IF value = None THEN StrV("") ELSE value, model_metadata(c, f).value_map)

\* decode of a raw string for field f
Decoded(c, f, raw) ==
    convert_from_URL(raw, model_metadata(c, f).dtype, model_metadata(c, f).value_map)

HasUrlKey(c, f) == model_metadata(c, f).url_key # ""

\* field f of class c held a value when the last operation started
WasInitialized(c, f) == c \in DOMAIN last.ss0 /\ f \in DOMAIN last.ss0[c]

Wrote == last.op = "write"
ReadFirst == last.op = "read" /\ ~WasInitialized(last.cls, last.field)
Touched == last.op \in {"read", "write"}

\* the engine state the last operation started from
Before ==
    [reg |-> registry, cfg |-> config, ss |-> last.ss0, qp |-> last.qp0,
     flag |-> is_restoring_url, log |-> <<>>]

\* a key present before the last operation is present afterwards / with the same value
Survived(k) == k \in DOMAIN last.qp0 => k \in DOMAIN query_params
Unchanged(k) == k \in DOMAIN last.qp0 => (k \in DOMAIN query_params /\ query_params[k] = last.qp0[k])

-----------------------------------------------------------------------------
(* C1: ownership *)

RemovesOwnKey(k) ==
    /\ last.val = None
    /\ config[last.cls].ignore_none_url
    /\ k = PrefixedKey(last.cls, last.field)

-----------------------------------------------------------------------------
(* C2: sharing is directional *)

\* class b lists class a in share_url_with, by reference or by registered name
Shares(b, a) ==
    \E j \in 1..Len(config[b].share_url_with) :
        ResolveShared(registry, config[b].share_url_with[j]) = a

\* b is selfish and shares with a; a is selfish and does not list b
OneWay(b, a) ==
    /\ a \in registry /\ b \in registry /\ a # b
    /\ config[a].url_selfish /\ config[b].url_selfish
    /\ Shares(b, a) /\ ~Shares(a, b)

-----------------------------------------------------------------------------
(* C3: Restore never overwrites *)

\* the last operation was one Restore pass of its class, started from the
\* state the operation started from: a call of _restore_url, a read of a
\* field already in the namespace, or a write to a field without URL key
\* (whose URL sync does nothing) under restore_url_on_touch
RestorePass ==
    \/ last.op = "restore"
    \/ /\ last.op = "read" /\ WasInitialized(last.cls, last.field)
       /\ config[last.cls].restore_url_on_touch
    \/ /\ Wrote /\ ~HasUrlKey(last.cls, last.field)
       /\ config[last.cls].restore_url_on_touch

\* C3: every key present in the URL when a Restore pass of class C starts
\* holds the same value when the pass ends, whatever the in-memory state of
\* C (also when a field of C is not yet initialized).
C3_RestoreNeverOverwrites ==
    RestorePass => \A k \in DOMAIN last.qp0 : Unchanged(k)

-----------------------------------------------------------------------------
(* C4: Restore repairs missing keys *)

\* field f of the touched class was initialized with a non-None value and
\* its prefixed key was missing when the operation started
Missing(c, f) ==
    /\ HasUrlKey(c, f)
    /\ WasInitialized(c, f) /\ last.ss0[c][f] # None
    /\ PrefixedKey(c, f) \notin DOMAIN last.qp0

Repaired(c, f) ==
    /\ PrefixedKey(c, f) \in DOMAIN query_params
    /\ query_params[PrefixedKey(c, f)] = Encoded(c, f, session_state[c][f])

\* C4 as stated: under restore_url_on_touch, when the prefixed key of an
\* initialized field f with a non-None value is missing, the key is present
\* and holds the encoding of f's stored value after the next read or write
\* of any field of the class.
C4_AnyTouchRepairs ==
    (Touched /\ config[last.cls].restore_url_on_touch) =>
        \A f \in FieldSet(last.cls) : Missing(last.cls, f) => Repaired(last.cls, f)

\* C4 amended: the same, except when the operation writes None to f itself
\* under ignore_none_url: then the key stays absent.
C4_RestoreRepairs ==
    (Touched /\ config[last.cls].restore_url_on_touch) =>
        \A f \in FieldSet(last.cls) :
            Missing(last.cls, f) =>
                IF Wrote /\ last.field = f /\ RemovesOwnKey(PrefixedKey(last.cls, f))
                THEN PrefixedKey(last.cls, f) \notin DOMAIN query_params
                ELSE Repaired(last.cls, f)

\* a read of one field brought back the missing key of another field
C4_Witness ==
    /\ last.op = "read" /\ config[last.cls].restore_url_on_touch
    /\ \E f \in FieldSet(last.cls) :
          /\ f # last.field
          /\ Missing(last.cls, f)
          /\ Repaired(last.cls, f)

-----------------------------------------------------------------------------
(* C5: write postcondition *)

\* C5: after set(C, f, v) with v not None on a field with an external key,
\* the namespace holds v for f and the URL holds encode(v, value_map) under
\* prefix + key, whatever the key held before.
C5_WritePostcondition ==
    (Wrote /\ last.val # None /\ HasUrlKey(last.cls, last.field)) =>
        /\ session_state[last.cls][last.field] = last.val
        /\ PrefixedKey(last.cls, last.field) \in DOMAIN query_params
        /\ query_params[PrefixedKey(last.cls, last.field)] = Encoded(last.cls, last.field, last.val)

\* the write replaced a value that the engine had not put under the key
C5_Witness ==
    /\ Wrote /\ last.val = IntV(0) /\ last.field = "status"
    /\ PrefixedKey(last.cls, "status") \in DOMAIN last.qp0
    /\ last.qp0[PrefixedKey(last.cls, "status")] = "abc"
    /\ query_params[PrefixedKey(last.cls, "status")] = "pending"

-----------------------------------------------------------------------------
(* C6: the URL wins over the default on first touch *)

\* the raw string under key k when the last operation started
RawBefore(k) == last.qp0[k]

\* the field read has an external key, which was in the URL when the read started
ExternalKeyPresent ==
    /\ HasUrlKey(last.cls, last.field)
    /\ model_metadata(last.cls, last.field).url_key \in DOMAIN last.qp0

ExternalRaw == RawBefore(model_metadata(last.cls, last.field).url_key)

\* C6: when the field's external key is in the URL with a raw string that
\* decodes to the declared type, the first read of the field returns the
\* decoded value, not the default, and the namespace holds that value.
C6_UrlWinsOverDefault ==
    (ReadFirst /\ ExternalKeyPresent /\ Decoded(last.cls, last.field, ExternalRaw).ok) =>
        /\ last.ret = Decoded(last.cls, last.field, ExternalRaw).v
        /\ session_state[last.cls][last.field] = last.ret

\* page=5 in the URL: the first read of page returns 5, which is not the default
C6_Witness ==
    /\ ReadFirst /\ last.field = "page" /\ ExternalKeyPresent /\ ExternalRaw = "5"
    /\ last.ret = IntV(5)
    /\ last.ret # model_metadata(last.cls, "page").default

-----------------------------------------------------------------------------
(* C7: lazy initialization consults the prefixed key *)

\* C7: for a class with a non-empty url_prefix p, when p + external_key is
\* in the URL (with a raw string that decodes), the first read of the field
\* returns the value decoded from that key: the key looked up is the key the
\* write path and Restore write to.
C7_InitReadsPrefixedKey ==
    (/\ ReadFirst /\ HasUrlKey(last.cls, last.field)
     /\ config[last.cls].url_prefix # ""
     /\ PrefixedKey(last.cls, last.field) \in DOMAIN last.qp0
     /\ Decoded(last.cls, last.field, RawBefore(PrefixedKey(last.cls, last.field))).ok) =>
        last.ret = Decoded(last.cls, last.field, RawBefore(PrefixedKey(last.cls, last.field))).v

-----------------------------------------------------------------------------
(* C8: the default on first touch *)

-----------------------------------------------------------------------------
(* C9: None handling *)

\* C9: after set(C, f, None) on a field with an external key, the prefixed
\* key is absent from the URL if ignore_none_url is true (the Restore that
\* follows does not put it back), and holds the empty string if it is false.
C9_NoneHandling ==
    (Wrote /\ last.val = None /\ HasUrlKey(last.cls, last.field)) =>
        IF config[last.cls].ignore_none_url
        THEN PrefixedKey(last.cls, last.field) \notin DOMAIN query_params
        ELSE /\ PrefixedKey(last.cls, last.field) \in DOMAIN query_params
             /\ query_params[PrefixedKey(last.cls, last.field)] = ""

\* None was written over a key that was present, Restore ran, the key is gone
C9_Witness ==
    /\ Wrote /\ last.val = None /\ HasUrlKey(last.cls, last.field)
    /\ config[last.cls].ignore_none_url /\ config[last.cls].restore_url_on_touch
    /\ PrefixedKey(last.cls, last.field) \in DOMAIN last.qp0
    /\ PrefixedKey(last.cls, last.field) \notin DOMAIN query_params

-----------------------------------------------------------------------------
(* C10: decode-error fallback *)

\* the same first read, started without the undecodable parameter in the URL
WithoutBadParameter ==
    getattr([Before EXCEPT !.qp = Del(last.qp0, model_metadata(last.cls, last.field).url_key)],
            last.cls, last.field)

\* C10: when the raw value of field f cannot be decoded to f's type, the
\* first read of f returns f's default, and every field of the class holds
\* what it would hold had the parameter of f not been in the URL: the error
\* changes the resolution of no other field.
C10_DecodeErrorFallback ==
    (ReadFirst /\ ExternalKeyPresent /\ ~Decoded(last.cls, last.field, ExternalRaw).ok) =>
        /\ last.ret = model_metadata(last.cls, last.field).default
        /\ session_state[last.cls][last.field] = model_metadata(last.cls, last.field).default
        /\ session_state[last.cls] = WithoutBadParameter.m.ss[last.cls]

\* status=abc and page=5 in the URL: status falls back to 1, page resolves to 5
C10_Witness ==
    /\ ReadFirst /\ last.field = "status" /\ ExternalKeyPresent /\ ExternalRaw = "abc"
    /\ last.ret = IntV(1)
    /\ ~WasInitialized(last.cls, "page")
    /\ "page" \in DOMAIN session_state[last.cls]
    /\ session_state[last.cls]["page"] = IntV(5)

-----------------------------------------------------------------------------
(* Vocabulary of the persistence properties *)

\* field f of class c is persisted under identity s / the value persisted
Persisted(c, s, f) == RedisKey(c, s) \in DOMAIN redis /\ f \in DOMAIN redis[RedisKey(c, s)]
PersistedValue(c, s, f) == JsonValue(redis[RedisKey(c, s)][f])

\* the last operation was a session() entry that reached the page evaluation
Entered == last.op = "enter" /\ ~last.raised
IdentityChanged == last.prev_sid # "" /\ last.prev_sid # last.val.s

\* the pass in progress began with an identity transition that discarded a
\* namespace holding value v for field f of class c
Discarded(c, f, v) ==
    /\ pc = "in"
    /\ c \in DOMAIN stale /\ f \in DOMAIN stale[c] /\ stale[c][f] = v

\* every save thread has written all its payloads
AllSaved == \A i \in 1..Len(saves) : saves[i].next > Len(saves[i].payloads)

-----------------------------------------------------------------------------
(* C11: identity isolation *)

\* C11: when the identity differs between two successive session() passes,
\* the namespace is discarded before the load step (after the entry every
\* value in the namespace is the one persisted under the new identity), and
\* in the second pass the first read of a field does not return the value
\* the discarded namespace held for it (other than the default) unless that
\* value is persisted under the new identity.
C11_IdentityIsolation ==
    /\ (Entered /\ IdentityChanged) =>
          \A c \in DOMAIN session_state : \A f \in DOMAIN session_state[c] :
              Persisted(c, sid, f) /\ PersistedValue(c, sid, f) = session_state[c][f]
    /\ (ReadFirst /\ Discarded(last.cls, last.field, last.ret)
        /\ last.ret # model_metadata(last.cls, last.field).default) =>
          (Persisted(last.cls, sid, last.field)
           /\ PersistedValue(last.cls, sid, last.field) = last.ret)

-----------------------------------------------------------------------------
(* C12: the URL overrides persisted state *)

\* field f of class c is persisted under the identity of the pass while its
\* prefixed key is in the URL
Overridden(c, f, qp) == HasUrlKey(c, f) /\ Persisted(c, sid, f) /\ PrefixedKey(c, f) \in DOMAIN qp

\* C12: at session() entry, for a class that is not warm, a persisted field
\* whose prefixed key is in the URL is not loaded while the class's other
\* persisted fields are; the first read of the excluded field returns the
\* value decoded from the URL.
C12_UrlOverridesPersisted ==
    /\ (Entered /\ last.failed = {}) =>
          \A c \in registry :
              (c \notin DOMAIN last.ss0 \/ last.ss0[c] = EmptyDict) =>
                  \A f \in FieldSet(c) :
                      /\ Overridden(c, f, query_params) =>
                            (c \notin DOMAIN session_state \/ f \notin DOMAIN session_state[c])
                      /\ (Persisted(c, sid, f) /\ ~Overridden(c, f, query_params)) =>
                            (/\ c \in DOMAIN session_state /\ f \in DOMAIN session_state[c]
                             /\ session_state[c][f] = PersistedValue(c, sid, f))
    /\ (/\ ReadFirst /\ pc = "in" /\ faults = 0
        /\ Overridden(last.cls, last.field, last.qp0)
        /\ Decoded(last.cls, last.field, RawBefore(PrefixedKey(last.cls, last.field))).ok) =>
          last.ret = Decoded(last.cls, last.field, RawBefore(PrefixedKey(last.cls, last.field))).v

-----------------------------------------------------------------------------
(* C13: warm-session skip *)

\* class c had a populated namespace when the last operation started
Warm(c) == c \in DOMAIN last.ss0 /\ last.ss0[c] # EmptyDict

\* C13: at session() entry with an unchanged identity, a class whose
\* namespace is already populated keeps exactly its in-memory values,
\* whatever the remote store holds for it.
C13_WarmSkip ==
    (Entered /\ ~IdentityChanged) =>
        \A c \in DOMAIN last.ss0 :
            Warm(c) => (c \in DOMAIN session_state /\ session_state[c] = last.ss0[c])

\* the entry kept a warm class whose persisted data differs from the namespace
C13_Witness ==
    /\ Entered /\ ~IdentityChanged /\ last.failed = {}
    /\ \E c \in registry :
          /\ Warm(c)
          /\ RedisKey(c, sid) \in DOMAIN redis
          /\ deserialize_state(redis[RedisKey(c, sid)]) # last.ss0[c]
          /\ session_state[c] = last.ss0[c]

-----------------------------------------------------------------------------
(* C14: last save started wins *)

\* the save thread started last for identity s
LastStarted(s) ==
    saves[CHOOSE i \in 1..Len(saves) :
            saves[i].sid = s /\ \A j \in (i + 1)..Len(saves) : saves[j].sid # s]

\* C14: once every background save has finished (no call having failed),
\* the remote store holds, for every class of the save started last for an
\* identity, the snapshot of that save.
C14_LastSaveStartedWins ==
    (last.op = "save" /\ AllSaved /\ faults = 0) =>
        \A n \in 1..Len(LastStarted(last.val.s).payloads) :
            LET item == LastStarted(last.val.s).payloads[n]
            IN  (item.class_name = last.cls) =>
                    (/\ RedisKey(item.class_name, last.val.s) \in DOMAIN redis
                     /\ redis[RedisKey(item.class_name, last.val.s)] = serialize_state(item.data))

-----------------------------------------------------------------------------
(* C15: failures of the remote store never propagate *)

\* the remote store the entry would have seen had the failing loads found nothing
WithoutFailed ==
    [k \in {x \in DOMAIN redis : ClassOfKey(x, sid) \notin last.failed \/ ~Matches(x, sid)} |->
        redis[k]]

\* the same entry, started with nothing persisted for the classes whose load failed
EnteredWithoutFailed ==
    session_enter([Before EXCEPT !.ss = last.ss0], WithoutFailed, last.prev_sid, sid,
                  ScanKeys(WithoutFailed, sid), {})

\* C15: no operation lets a failure of the remote store escape; after an
\* entry whose loads failed the namespace is what it would be had nothing
\* been persisted for those classes and the page evaluation starts; a failed
\* save or delete leaves the remote store as it was.
C15_FailuresNeverPropagate ==
    /\ ~last.raised
    /\ last.op = "enter" =>
          /\ pc = "in"
          /\ session_state = EnteredWithoutFailed.m.ss
    /\ (last.op \in {"save", "delete"} /\ last.failed # {}) => redis = last.store0

\* a load failed for a class that had persisted data: the class is not loaded
C15_Witness ==
    /\ last.op = "enter" /\ last.failed # {}
    /\ \E c \in last.failed :
          /\ RedisKey(c, sid) \in DOMAIN redis
          /\ (c \notin DOMAIN session_state \/ session_state[c] = EmptyDict)
    /\ pc = "in"

-----------------------------------------------------------------------------
(* Restore, reset, focus and widget binding *)

\* C17: running Restore a second time, right after a first run on the same
\* class, changes neither the URL nor the namespace.
C17_RestoreIdempotent ==
    last.op = "restore" => restore_url(Engine, last.cls) = Engine

\* a Restore that put back two missing keys, and whose second run is a no-op
C17_Witness ==
    /\ last.op = "restore"
    /\ Cardinality(DOMAIN query_params \ DOMAIN last.qp0) >= 2
    /\ restore_url(Engine, last.cls) = Engine

\* key k belongs to class c or to a class that c shares the URL with
OwnOrShared(c, k) ==
    \/ k \in OwnKeys(config, c)
    \/ \E d \in registry : Shares(c, d) /\ k \in OwnKeys(config, d)

AtDefault(c, f) ==
    LET default == model_metadata(c, f).default
    IN  /\ c \in DOMAIN session_state /\ f \in DOMAIN session_state[c]
        /\ session_state[c][f] = default
        /\ HasUrlKey(c, f) =>
              IF default = None /\ config[c].ignore_none_url
              THEN PrefixedKey(c, f) \notin DOMAIN query_params
              ELSE /\ PrefixedKey(c, f) \in DOMAIN query_params
                   /\ query_params[PrefixedKey(c, f)] = Encoded(c, f, default)

\* the fields the last reset assigned
ResetFields == {f \in FieldSet(last.cls) : last.field = "" \/ last.field = f}

\* C18: after reset() every declared field holds its default and every field
\* with an external key has the encoded default under it (no key when the
\* default is None and None is not written); a selfish class that reset a field
\* with a key has removed the keys that are neither its own nor shared;
\* reset(f) does this for f alone and leaves the stored value of every other
\* field that was initialized unchanged.
C18_ResetWritesDefaults ==
    last.op = "reset" =>
        /\ \A f \in ResetFields : AtDefault(last.cls, f)
        /\ \A g \in FieldSet(last.cls) \ ResetFields :
              WasInitialized(last.cls, g) => session_state[last.cls][g] = last.ss0[last.cls][g]
        /\ (config[last.cls].url_selfish /\ \E f \in ResetFields : HasUrlKey(last.cls, f)) =>
              \A k \in DOMAIN last.qp0 : ~OwnOrShared(last.cls, k) => k \notin DOMAIN query_params

\* reset() of a selfish class whose field held another value, with a foreign
\* key in the URL
C18_Witness ==
    /\ last.op = "reset" /\ last.field = ""
    /\ config[last.cls].url_selfish
    /\ \E f \in FieldSet(last.cls) :
          /\ HasUrlKey(last.cls, f) /\ WasInitialized(last.cls, f)
          /\ last.ss0[last.cls][f] # model_metadata(last.cls, f).default
          /\ PrefixedKey(last.cls, f) \in DOMAIN query_params
    /\ \E k \in DOMAIN last.qp0 : k \notin DOMAIN query_params

\* reset(f) of one field while another field held a value that is not its default
C18_WitnessOne ==
    /\ last.op = "reset" /\ last.field # ""
    /\ \E g \in FieldSet(last.cls) \ ResetFields :
          /\ WasInitialized(last.cls, g)
          /\ g \in DOMAIN session_state[last.cls]
          /\ session_state[last.cls][g] # model_metadata(last.cls, g).default
    /\ WasInitialized(last.cls, last.field)
    /\ last.ss0[last.cls][last.field] # session_state[last.cls][last.field]

\* reset() of a field whose default is None: no key is left for it
C18_WitnessNone ==
    /\ last.op = "reset"
    /\ \E f \in ResetFields :
          /\ model_metadata(last.cls, f).default = None
          /\ PrefixedKey(last.cls, f) \in DOMAIN last.qp0
          /\ PrefixedKey(last.cls, f) \notin DOMAIN query_params

\* a bind of a declared field
Bound == last.op = "bind" /\ ~last.raised

\* C19 as stated: bind stores a value under the widget key "<Class>_<field>_widget"
\* if and only if the key is not already present, and then the field's current
\* resolved value; a key that is already present keeps its value.
C19_SeedsOnlyWhenAbsent ==
    Bound =>
        LET k == WidgetKey(last.cls, last.field)
        IN  /\ k \in DOMAIN widgets
            /\ IF k \in DOMAIN last.widgets0
               THEN widgets[k] = last.widgets0[k]
               ELSE widgets[k] = last.ret

C20_WitnessFirstTouch ==
    /\ Bound
    /\ ~WasInitialized(last.cls, last.field)
    /\ session_state # last.ss0 /\ query_params # last.qp0

\* C21: the callback returned by bind performs the write path with the value
\* the widget key holds when the callback runs: afterwards the field stores
\* that value, a read returns it, and the field's key in the URL holds its
\* encoding (no key for None when None is not written).
C21_CallbackWritesWidgetValue ==
    last.op = "callback" =>
        LET c == last.cls
            f == last.field
            w == last.widgets0[WidgetKey(c, f)]
        IN  /\ session_state[c][f] = w
            /\ getattr(Engine, c, f).ret = w
            /\ HasUrlKey(c, f) =>
                  IF w = None /\ config[c].ignore_none_url
                  THEN PrefixedKey(c, f) \notin DOMAIN query_params
                  ELSE /\ PrefixedKey(c, f) \in DOMAIN query_params
                       /\ query_params[PrefixedKey(c, f)] = Encoded(c, f, w)

\* the widget was edited after the bind: the callback stored a value that
\* differs from the one the field held, and the URL shows it
C21_Witness ==
    /\ last.op = "callback"
    /\ WasInitialized(last.cls, last.field)
    /\ last.ss0[last.cls][last.field] # last.widgets0[WidgetKey(last.cls, last.field)]
    /\ HasUrlKey(last.cls, last.field)
    /\ PrefixedKey(last.cls, last.field) \in DOMAIN query_params
    /\ query_params[PrefixedKey(last.cls, last.field)] =
          Encoded(last.cls, last.field, session_state[last.cls][last.field])

\* C22: bind of a name that is not a declared field raises and leaves the
\* widget keys, the namespace and the URL as they were.
C22_InvalidBindRaises ==
    (last.op = "bind" /\ ~IsField(last.cls, last.field)) =>
        /\ last.raised
        /\ widgets = last.widgets0
        /\ session_state = last.ss0
        /\ query_params = last.qp0

\* an undeclared name bound on a class that was never touched, with a widget
\* key and a URL key present
C22_Witness ==
    /\ last.op = "bind" /\ ~IsField(last.cls, last.field) /\ last.raised
    /\ last.cls \notin DOMAIN session_state
    /\ widgets # EmptyDict
    /\ query_params # EmptyDict

-----------------------------------------------------------------------------
(* Undeclared names, dump and hooks *)

\* the last operation left the namespace and the URL alone and called no hook
Untouched ==
    session_state = last.ss0 /\ query_params = last.qp0 /\ last.hooks = <<>>

\* the class held a plain attribute of that name when the last operation started
HadAttr(c, name) == c \in DOMAIN last.attrs0 /\ name \in DOMAIN last.attrs0[c]

\* C23 as stated: reading a name that is not a declared field raises, creates
\* no namespace, calls no hook and leaves the URL alone.
C23_UnknownReadRaises ==
    last.op = "read_unknown" => (last.raised /\ Untouched)

\* C23 amended: reading a name that is neither a declared field nor a plain
\* attribute of the class raises; a name that was assigned before is returned
\* with the value assigned; in both cases no namespace is created, no hook is
\* called and the URL is left alone.
C23_UnknownReadRaisesUnlessAssigned ==
    last.op = "read_unknown" =>
        /\ Untouched
        /\ IF HadAttr(last.cls, last.field)
           THEN ~last.raised /\ last.ret = last.attrs0[last.cls][last.field]
           ELSE last.raised

\* an unknown name read on a class that defines on_init and has no namespace,
\* with a key in the URL: the read raised
C23_Witness ==
    /\ last.op = "read_unknown" /\ last.raised
    /\ "on_init" \in config[last.cls].hooks
    /\ last.cls \notin DOMAIN session_state
    /\ query_params # EmptyDict

\* C24 as stated: assigning to a name that is not a declared field raises and
\* stores nothing, so a later read of the name still raises.
C24_UnknownWriteRaises ==
    /\ last.op = "write_unknown" => (last.raised /\ class_attrs = last.attrs0)
    /\ last.op = "read_unknown" => last.raised

\* C24 amended: assigning to a name that is not a declared field raises
\* nothing and stores the value as a plain attribute of the class, outside the
\* namespace and the URL and without any hook; a later read of the name
\* returns the value.
C24_UnknownWriteStoresAttribute ==
    /\ last.op = "write_unknown" =>
          /\ ~last.raised
          /\ Untouched
          /\ getattr_unknown(Engine, class_attrs, last.cls, last.field) =
                [m |-> Engine, raised |-> FALSE, ret |-> last.val]
    /\ (last.op = "read_unknown" /\ HadAttr(last.cls, last.field)) =>
          (~last.raised /\ last.ret = last.attrs0[last.cls][last.field])

\* an assigned unknown name read back
C24_Witness ==
    /\ last.op = "read_unknown" /\ HadAttr(last.cls, last.field)
    /\ last.ret = IntV(7)
    /\ last.cls \in DOMAIN session_state

\* C25: dump() returns a mapping equal to the class's namespace (empty when
\* the class has none) and changes nothing: no namespace is created, no hook
\* is called, the URL is left alone; adding, removing or replacing an entry of
\* the returned mapping leaves the namespace and the URL as they were.
C25_DumpIsSnapshot ==
    /\ last.op = "dump" =>
          /\ dumped.data = IF last.cls \in DOMAIN last.ss0 THEN last.ss0[last.cls] ELSE EmptyDict
          /\ Untouched
    /\ last.op = "mutate_dump" => Untouched

\* an entry of the returned mapping was replaced: the namespace still holds
\* the field's value
C25_Witness ==
    /\ last.op = "mutate_dump"
    /\ last.cls \in DOMAIN session_state
    /\ last.field \in DOMAIN session_state[last.cls]
    /\ last.field \in DOMAIN dumped.data
    /\ dumped.data[last.field] # session_state[last.cls][last.field]

\* dump() of a class that defines on_init and was never touched
C25_WitnessUntouched ==
    /\ last.op = "dump"
    /\ "on_init" \in config[last.cls].hooks
    /\ last.cls \notin DOMAIN session_state
    /\ dumped.data = EmptyDict

\* the positions of the calls of a hook in the log of the last operation
Calls(name) == {j \in 1..Len(last.hooks) : last.hooks[j].hook = name}

\* C28: a read or a write of a field of a class that has no namespace and
\* defines on_init calls on_init exactly once, before anything else, when the
\* namespace exists and holds no field yet; a read, a write or a Restore of a
\* class that has a namespace never calls it.
C28_OnInitOncePerNamespace ==
    /\ (last.op \in {"read", "write"} /\ "on_init" \in config[last.cls].hooks) =>
          IF last.cls \in DOMAIN last.ss0
          THEN Calls("on_init") = {}
          ELSE /\ Calls("on_init") = {1}
               /\ last.hooks[1].cls = last.cls
               /\ last.cls \in DOMAIN last.hooks[1].ss
               /\ last.hooks[1].ss[last.cls] = EmptyDict
               /\ last.hooks[1].qp = last.qp0
    /\ (last.op = "restore" /\ last.cls \in DOMAIN last.ss0) => Calls("on_init") = {}

\* the first read of a field created the namespace: on_init was called, then
\* the field was initialized
C28_Witness ==
    /\ last.op = "read" /\ last.cls \notin DOMAIN last.ss0
    /\ Calls("on_init") = {1}
    /\ Len(last.hooks) > 1
    /\ last.field \in DOMAIN session_state[last.cls]

\* a later write, with the namespace in place, did not call on_init
C28_WitnessLater ==
    /\ last.op = "write" /\ last.cls \in DOMAIN last.ss0
    /\ "on_init" \in config[last.cls].hooks
    /\ Calls("on_init") = {} /\ Calls("before_set") # {}

\* the value stored for the written field before the last operation
StoredBefore ==
    IF WasInitialized(last.cls, last.field) THEN last.ss0[last.cls][last.field] ELSE None

\* C29: a write of v to field f calls on_change(f, old, v) exactly when the
\* value stored before is truthy and differs from v, once and as the last
\* step: the hook sees the namespace and the URL as the write leaves them,
\* with v under the field's key; a read, also one that initializes the field,
\* and a Restore never call it.
C29_OnChangeRule ==
    /\ (last.op = "write" /\ "on_change" \in config[last.cls].hooks) =>
          IF Truth(StoredBefore) /\ ~PyEq(StoredBefore, last.val)
          THEN /\ Calls("on_change") = {Len(last.hooks)}
               /\ LET ev == last.hooks[Len(last.hooks)]
                  IN  /\ ev.cls = last.cls /\ ev.field = last.field
                      /\ ev.old = StoredBefore /\ ev.new = last.val
                      /\ ev.ss = session_state /\ ev.qp = query_params
                      /\ HasUrlKey(last.cls, last.field) =>
                            IF last.val = None /\ config[last.cls].ignore_none_url
                            THEN PrefixedKey(last.cls, last.field) \notin DOMAIN ev.qp
                            ELSE /\ PrefixedKey(last.cls, last.field) \in DOMAIN ev.qp
                                 /\ ev.qp[PrefixedKey(last.cls, last.field)] =
                                       Encoded(last.cls, last.field, last.val)
          ELSE Calls("on_change") = {}
    /\ last.op \in {"read", "restore"} => Calls("on_change") = {}

\* a write that replaced a truthy value of a field with a key, in a class that
\* restores on touch, while the key was missing from the URL
C29_Witness ==
    /\ last.op = "write" /\ Calls("on_change") # {}
    /\ HasUrlKey(last.cls, last.field)
    /\ config[last.cls].restore_url_on_touch
    /\ PrefixedKey(last.cls, last.field) \notin DOMAIN last.qp0

\* writes that did not call on_change: the old value was 0, or equal to the new one
C29_WitnessSilent ==
    /\ last.op = "write" /\ "on_change" \in config[last.cls].hooks
    /\ Calls("on_change") = {}
    /\ WasInitialized(last.cls, last.field)
    /\ \/ StoredBefore = IntV(0) /\ last.val # IntV(0)
       \/ StoredBefore = IntV(1) /\ last.val = BoolV(TRUE)

\* every key in the URL is a key of class c or of a class c shares with
OnlyKeysOf(c) == \A k \in DOMAIN query_params : OwnOrShared(c, k)

-----------------------------------------------------------------------------
(* The codec *)

\* the declared types of the round trip: the scalar types, and the
\* collections of one declared element type
ScalarTypes == {"str", "int", "bool", "date", "time", "datetime"}
RECURSIVE Enumerated(_)
Enumerated(T) ==
    \/ T \in ScalarTypes
    \/ /\ get_origin(T) # "" /\ first_arg(T) # ""
       /\ \E name \in {"list", "List", "set", "Set", "tuple", "Tuple"} :
             \E close \in {"]", ", ...]"} : T = name \o "[" \o first_arg(T) \o close
       /\ Enumerated(first_arg(T))

\* value is a value of the declared type T
RECURSIVE OfType(_, _)
OfType(value, T) ==
    IF T \in ScalarTypes THEN value.t = T
    ELSE /\ value.t = get_origin(T)
         /\ \A j \in 1..Len(value.items) : OfType(value.items[j], first_arg(T))

\* equality of a decoded value and the value encoded: the same type and the
\* same content, whatever the order in which a set lists its elements
SameValue(a, b) == IF a.t = "set" /\ b.t = "set" THEN PyEq(a, b) ELSE a = b

RoundTrip ==
    /\ codec.phase = "done" /\ codec.value_map = NoMap
    /\ Enumerated(codec.dtype) /\ OfType(codec.value, codec.dtype)

C26_WitnessNested ==
    /\ RoundTrip /\ codec.dtype = "list[list[int]]"
    /\ codec.value = ListV(<<ListV(<<IntV(1), IntV(2)>>), ListV(<<IntV(3), IntV(4)>>)>>)
    /\ codec.out.v = codec.value

\* the items of a collection are all keys of the value map
ItemsMapped(value, value_map) ==
    /\ value.t \in {"list", "tuple", "set"} /\ Len(value.items) > 0
    /\ \A j \in 1..Len(value.items) : MapHasKey(value_map, value.items[j])

\* C27: with a value map M, every internal value v that is a key of M encodes
\* to M[v], and M[v] decodes with the declared type and M to v; a collection
\* whose elements are keys of M encodes to the list of their M[v] and decodes
\* to the collection.
C27_ValueMapBothDirections ==
    codec.phase = "done" /\ codec.value_map # NoMap =>
        /\ MapHasKey(codec.value_map, codec.value) =>
              /\ codec.text = MapGet(codec.value_map, codec.value)
              /\ codec.out.ok /\ SameValue(codec.out.v, codec.value)
        /\ ItemsMapped(codec.value, codec.value_map) =>
              /\ codec.text = encode_items([j \in 1..Len(codec.value.items) |->
                                  MapGet(codec.value_map, codec.value.items[j])])
              /\ codec.out.ok /\ SameValue(codec.out.v, codec.value)

\* the encoding direction alone: a key of M encodes to M[v], and the elements
\* of a collection encode to their M[v]
C27_EncodeUsesValueMap ==
    codec.phase \in {"text", "done"} /\ codec.value_map # NoMap =>
        /\ MapHasKey(codec.value_map, codec.value) =>
              codec.text = MapGet(codec.value_map, codec.value)
        /\ ItemsMapped(codec.value, codec.value_map) =>
              codec.text = encode_items([j \in 1..Len(codec.value.items) |->
                              MapGet(codec.value_map, codec.value.items[j])])

\* a mapped integer or string came back from its mapped text
C27_WitnessDecoded ==
    /\ codec.phase = "done" /\ MapHasKey(codec.value_map, codec.value)
    /\ codec.text = MapGet(codec.value_map, codec.value)
    /\ codec.out.ok /\ codec.out.v = codec.value

\* the mapped text of a boolean key is rejected
C27_WitnessBoolRejected ==
    /\ codec.phase = "done" /\ codec.dtype = "bool" /\ codec.value_map = BoolMap
    /\ codec.text = "yes" /\ ~codec.out.ok

\* the mapped items of a collection are decoded without the value map
C27_WitnessItemsRejected ==
    /\ codec.phase = "done" /\ codec.dtype = "list[int]"
    /\ ItemsMapped(codec.value, codec.value_map) /\ ~codec.out.ok

-----------------------------------------------------------------------------
(* C31: a class that is not selfish *)

\* C31: a read or write of a field of a class with url_selfish=false leaves
\* every key of the URL that is not one of the class's own prefixed keys
\* present with its value unchanged.
C31_SelflessKeepsForeignKeys ==
    (Touched /\ ~config[last.cls].url_selfish) =>
        \A k \in DOMAIN last.qp0 : k \notin OwnKeys(config, last.cls) => Unchanged(k)

\* a class that is not selfish wrote its own key next to a foreign one
C31_Witness ==
    /\ Touched /\ ~config[last.cls].url_selfish
    /\ query_params # last.qp0
    /\ \E k \in DOMAIN last.qp0 : k \notin OwnKeys(config, last.cls) /\ k \in DOMAIN query_params

-----------------------------------------------------------------------------
(* C32: URL sync of a field without a url_key *)

\* C32: with restore_url_on_touch=false, a write to a field that has no
\* external key leaves the URL exactly as it was, also when the class is
\* selfish and the URL holds foreign keys.
C32_KeylessWriteLeavesUrl ==
    (Wrote /\ ~HasUrlKey(last.cls, last.field) /\ ~config[last.cls].restore_url_on_touch) =>
        query_params = last.qp0

\* a selfish class wrote a field without a key while a foreign key was in the URL
C32_Witness ==
    /\ Wrote /\ ~HasUrlKey(last.cls, last.field) /\ ~config[last.cls].restore_url_on_touch
    /\ config[last.cls].url_selfish
    /\ last.field \in DOMAIN session_state[last.cls]
    /\ session_state[last.cls][last.field] = last.val
    /\ \E k \in DOMAIN query_params : ~OwnOrShared(last.cls, k)

-----------------------------------------------------------------------------
(* C33: termination and the re-entrancy flag *)

\* the deepest stack a read or write can build: the touch, the lazy
\* initialization and its write, the Restore, and for the field the Restore
\* reads the same three calls and the suppressed Restore
MaxDepth == 8

\* a Restore of class c is executing: a call of _restore_url is past its guard
Restoring(c) == InTry(frames, c) # {}

\* C33: every read and write of a declared field terminates: the stack of
\* calls among read, lazy initialization, write and Restore never grows past
\* MaxDepth, at most one Restore per class is past its guard, every call the
\* page makes returns or raises, and the flag of a class is true exactly while
\* a Restore of that class is executing, so it is false after a Restore that
\* ended with an error.
C33_TouchTerminates ==
    /\ [](Len(frames) <= MaxDepth)
    /\ [](\A c \in registry : Cardinality(InTry(frames, c)) <= 1)
    /\ [](\A c \in registry : is_restoring_url[c] <=> Restoring(c))
    /\ (frames # <<>>) ~> (frames = <<>>)

\* a Restore requested while one was in progress did nothing, and the touch
\* that started it has returned with the flag down
C33_Witness ==
    /\ frames = <<>> /\ last.op = "read" /\ ~last.raised
    /\ ~is_restoring_url[last.cls]
    /\ ~WasInitialized(last.cls, last.field)
    /\ \A f \in FieldSet(last.cls) : f \in DOMAIN session_state[last.cls]

\* a Restore ended with an error and the flag is down
C33_WitnessError ==
    /\ frames = <<>> /\ last.op \in {"read", "restore"} /\ last.raised
    /\ ~is_restoring_url[last.cls]

\* the stack at its deepest: a Restore suppressed inside a Restore
C33_WitnessSuppressed ==
    /\ Len(frames) = MaxDepth
    /\ Top.fn = "restore_url" /\ Top.pc = "enter" /\ is_restoring_url[Top.cls]

-----------------------------------------------------------------------------
(* C34: the declared default and the stored value *)

\* the fields of class c whose default is a mutable object
RefFields(c) == {f \in FieldSet(c) : model_metadata(c, f).default.t = "ref"}

\* C34: whatever reads, writes, resets and in-place changes of obtained
\* values happened, the default object of every field still holds the value
\* the class declared, so a later lazy initialization or reset yields it.
C34_DefaultNeverAliased ==
    \A c \in registry : \A f \in RefFields(c) :
        heap[model_metadata(c, f).default.i] = DeclaredDefault

\* the part that holds: the value a lazy initialization stores is a copy, not
\* the default object
C34_LazyInitCopies ==
    (ReadFirst /\ last.field \in RefFields(last.cls)) =>
        /\ last.ret # model_metadata(last.cls, last.field).default
        /\ session_state[last.cls][last.field] = last.ret
        /\ heap[last.ret.i] = heap[model_metadata(last.cls, last.field).default.i]

\* a lazily initialized list was changed in place and the default kept its value
C34_WitnessCopy ==
    /\ last.op = "mutate"
    /\ last.val # RefV(0)
    /\ heap[last.val.i] = ListV(<<StrV("a"), StrV("x")>>)
    /\ heap[0] = DeclaredDefault

\* after a reset the namespace holds the default object itself
C34_WitnessAliased ==
    /\ last.op = "reset" /\ "L" \in DOMAIN session_state
    /\ "tags" \in DOMAIN session_state["L"] /\ session_state["L"]["tags"] = RefV(0)

-----------------------------------------------------------------------------
(* C35: what a background save writes *)

\* the classes whose namespace holds a field
NonEmpty(ss) == {c \in DOMAIN ss : ss[c] # EmptyDict}

\* the step is the exit of session(): the payloads of the thread it starts are
\* the field values every non-empty namespace holds now, and the remote store
\* is not written
ExitSnapshots ==
    /\ redis' = redis
    /\ IF NonEmpty(session_state) = {}
       THEN saves' = saves
       ELSE /\ Len(saves') = Len(saves) + 1
            /\ LET started == saves'[Len(saves')]
               IN  /\ started.sid = sid /\ started.next = 1
                   /\ {started.payloads[j].class_name : j \in 1..Len(started.payloads)} =
                          NonEmpty(session_state)
                   /\ \A j \in 1..Len(started.payloads) :
                         started.payloads[j].data =
                             session_state[started.payloads[j].class_name]

\* the step is one write of a save thread: it writes the next payload of its
\* snapshot, serialized, under the key of the class and of the thread's identity
WorkerWritesSnapshot ==
    \E i \in 1..Len(saves) :
        /\ saves'[i].next = saves[i].next + 1
        /\ LET item == saves[i].payloads[saves[i].next]
           IN  redis' = IF last'.failed = {}
                        THEN Put(redis, RedisKey(item.class_name, saves[i].sid),
                                 serialize_state(item.data))
                        ELSE redis

\* C35: a save thread's payloads are the field values the namespaces held when
\* the evaluation ended; no later step changes them (assignments of a later
\* evaluation included); each write of the thread puts the next payload in
\* the remote store; the exit itself leaves the remote store unwritten.
C35_SaveWritesSnapshot ==
    [][/\ (pc = "in" /\ last'.op = "exit") => ExitSnapshots
       /\ \A i \in 1..Len(saves) :
             /\ i <= Len(saves')
             /\ saves'[i].payloads = saves[i].payloads /\ saves'[i].sid = saves[i].sid
       /\ (redis' # redis /\ last'.op = "save") => WorkerWritesSnapshot]_vars

\* a save in flight wrote its snapshot after a later evaluation of the same
\* identity had assigned the field again
C35_Witness ==
    /\ last.op = "save" /\ last.failed = {}
    /\ sid = last.val.s /\ pc = "in"
    /\ last.cls \in DOMAIN session_state
    /\ RedisKey(last.cls, sid) \in DOMAIN redis
    /\ \E f \in DOMAIN deserialize_state(redis[RedisKey(last.cls, sid)]) :
          /\ f \in DOMAIN session_state[last.cls]
          /\ session_state[last.cls][f] # deserialize_state(redis[RedisKey(last.cls, sid)])[f]
    /\ \E i \in 1..Len(saves) : saves[i].next > Len(saves[i].payloads)

\* the exit returned while nothing of its save was written
C35_WitnessDetached ==
    /\ last.op = "exit" /\ pc = "idle" /\ last_save_thread > 0
    /\ saves[last_save_thread].next = 1
    /\ RedisKey(saves[last_save_thread].payloads[1].class_name, sid) \notin DOMAIN redis

-----------------------------------------------------------------------------
(* C36: the namespaces of two classes *)

\* C36: a read, write, reset or bind callback on class C (and the read made
\* by bind) leaves the namespace of every other class as it was: no other
\* class gains or loses a namespace, and their stored fields keep their values.
C36_NamespaceIsolation ==
    last.op \in {"read", "write", "reset", "bind", "callback"} =>
        /\ DOMAIN session_state \ {last.cls} = DOMAIN last.ss0 \ {last.cls}
        /\ \A d \in DOMAIN last.ss0 \ {last.cls} : session_state[d] = last.ss0[d]

\* class C stored a value while another class held fields of its own
C36_Witness ==
    /\ last.op \in {"write", "reset", "callback"}
    /\ last.cls \in DOMAIN session_state
    /\ last.cls \notin DOMAIN last.ss0 \/ session_state[last.cls] # last.ss0[last.cls]
    /\ \E d \in DOMAIN last.ss0 \ {last.cls} :
          last.ss0[d] # EmptyDict /\ session_state[d] = last.ss0[d]

-----------------------------------------------------------------------------
(* C37: the first touch of a class *)

\* the last operation was the first read or write of a field of its class
FirstTouch ==
    /\ Touched
    /\ last.cls \notin DOMAIN last.ss0 \/ last.ss0[last.cls] = EmptyDict

\* what a field resolves to on first touch: the value decoded from its
\* external key k when k was in the URL with a raw string that decodes, else
\* its default
Resolved(c, f, k) ==
    IF k \in DOMAIN last.qp0 /\ Decoded(c, f, RawBefore(k)).ok
    THEN Decoded(c, f, RawBefore(k)).v
    ELSE model_metadata(c, f).default

\* after the first touch every field with an external key, other than a field
\* the touch wrote, is in the namespace with the value resolved from key(f)
AllInitialized(key(_)) ==
    \A f \in UrlFields(last.cls) :
        \/ Wrote /\ f = last.field
        \/ /\ f \in DOMAIN session_state[last.cls]
           /\ session_state[last.cls][f] = Resolved(last.cls, f, key(f))

\* the external key of a field of the class touched: the prefixed key
TouchedKey(f) == PrefixedKey(last.cls, f)

\* C37: with restore_url_on_touch=true, after the first read or write of one
\* field of class C every field of C that has an external key is in the
\* namespace, holding the value decoded from its external key (the prefixed
\* key) if that key was in the URL and decodable, else its default.
C37_FirstTouchInitializesAll ==
    (FirstTouch /\ config[last.cls].restore_url_on_touch) => AllInitialized(TouchedKey)

\* the part that holds: every field with an external key is in the namespace
\* after the first touch, and for a class without url_prefix each holds the
\* value resolved from its key
C37_FirstTouchWithoutPrefix ==
    (FirstTouch /\ config[last.cls].restore_url_on_touch) =>
        /\ UrlFields(last.cls) \subseteq DOMAIN session_state[last.cls]
        /\ config[last.cls].url_prefix = "" => AllInitialized(TouchedKey)

\* one touch initialized a sibling field from the URL
C37_WitnessSibling ==
    /\ FirstTouch /\ config[last.cls].restore_url_on_touch
    /\ last.field # "page"
    /\ "page" \in DOMAIN session_state[last.cls]
    /\ session_state[last.cls]["page"] = IntV(5)

\* pf_page=5 was in the URL and the first touch left page at its default
C37_WitnessPrefixed ==
    /\ FirstTouch /\ config[last.cls].restore_url_on_touch
    /\ last.field # "page"
    /\ "pf_page" \in DOMAIN last.qp0 /\ RawBefore("pf_page") = "5"
    /\ session_state[last.cls]["page"] = IntV(1)

-----------------------------------------------------------------------------
(* C38: the stored value and the URL *)

\* C38: a field that is in the namespace keeps its value through every step
\* that is not a write of that field (reads, Restores and changes of the URL
\* made from outside included), and a read of it returns the stored value.
C38_StoredValueWins ==
    [][/\ \A c \in DOMAIN session_state : \A f \in DOMAIN session_state[c] :
             \/ last'.op = "write" /\ last'.cls = c /\ last'.field = f
             \/ /\ c \in DOMAIN session_state' /\ f \in DOMAIN session_state'[c]
                /\ session_state'[c][f] = session_state[c][f]
       /\ (/\ last'.op = "read" /\ last'.cls \in DOMAIN session_state
           /\ last'.field \in DOMAIN session_state[last'.cls]) =>
             last'.ret = session_state[last'.cls][last'.field]]_vars

\* a read returned the stored value while the URL held another value under
\* the field's key
C38_Witness ==
    /\ last.op = "read" /\ WasInitialized(last.cls, last.field)
    /\ last.ret = last.ss0[last.cls][last.field]
    /\ \E k \in {PrefixedKey(last.cls, last.field), model_metadata(last.cls, last.field).url_key} :
          /\ k \in DOMAIN last.qp0 /\ k \in DOMAIN query_params
          /\ query_params[k] = RawBefore(k)
          /\ Decoded(last.cls, last.field, RawBefore(k)).ok
          /\ Decoded(last.cls, last.field, RawBefore(k)).v # last.ret

\* on_init of class c was called during the last operation
OnInitCalled(c) ==
    \E j \in 1..Len(last.hooks) : last.hooks[j].hook = "on_init" /\ last.hooks[j].cls = c

\* the entry of session() put the namespace of class c there: it was absent
\* (or emptied by the identity change) before and holds loaded fields now
LoadedByEntry(c) ==
    /\ Entered
    /\ c \in DOMAIN session_state /\ session_state[c] # EmptyDict
    /\ (last.prev_sid # "" /\ last.prev_sid # last.val.s) \/ c \notin DOMAIN last.ss0

\* C39: on_init of a class is called only by a read or a write that creates
\* the class's namespace; the entry of session() calls it for no class, also
\* when its load step creates the namespace; and the read or write that
\* follows an entry that loaded the class's namespace does not call on_init.
C39_OnInitNotAfterLoad ==
    [][\A c \in registry :
          /\ OnInitCalled(c)' =>
                /\ last'.op \in {"read", "write"} /\ last'.cls = c
                /\ c \notin DOMAIN session_state /\ c \in DOMAIN session_state'
          /\ (LoadedByEntry(c) /\ last'.op \in {"read", "write"} /\ last'.cls = c) =>
                /\ ~OnInitCalled(c)'
                /\ session_state'[c] # EmptyDict]_vars

\* the first read after an entry that loaded the namespace of a class that
\* defines on_init: the loaded value is returned, on_init was not called
C39_Witness ==
    /\ last.op = "read" /\ last.cls = "A" /\ last.field = "hits"
    /\ "on_init" \in config["A"].hooks
    /\ passes = 1 /\ edits = 0
    /\ "A" \in DOMAIN last.ss0 /\ last.ss0["A"] # EmptyDict
    /\ last.ret = IntV(42)
    /\ ~OnInitCalled("A")

\* the first read in a session that loaded nothing created the namespace and
\* called on_init
C39_WitnessCreated ==
    /\ last.op = "read" /\ last.cls = "A"
    /\ "on_init" \in config["A"].hooks
    /\ passes = 1
    /\ "A" \notin DOMAIN last.ss0
    /\ OnInitCalled("A")

\* the field metadata schema() of class c returns: the content of the dict
SchemaOf(c) == heap[schema(class_attrs, c).i]

\* C40: a class definition never changes the field metadata that schema()
\* of a class defined before returns, and no two classes return the same
\* metadata object.
C40_SchemaPerClass ==
    /\ [][last'.op = "define" => \A c \in registry : SchemaOf(c)' = SchemaOf(c)]_vars
    /\ [](\A c, d \in registry : c # d => schema(class_attrs, c) # schema(class_attrs, d))

\* what the code does keep: a class defined directly under PageState, or
\* whose body assigns _model_metadata itself, gets a dict of its own and its
\* definition changes the schema of no class defined before
C40_OwnDictWhenNotInherited ==
    [][(last'.op = "define" /\ (last'.val = StrV("PageState") \/
                               "_model_metadata" \in DOMAIN class_attrs'[last'.cls])) =>
          /\ \A c \in registry : SchemaOf(c)' = SchemaOf(c)
          /\ \A c \in registry : schema(class_attrs', c) # schema(class_attrs', last'.cls)]_vars

\* a subclass that declares a new field was defined: the parent's schema()
\* holds the subclass's field and is the subclass's own mapping
C40_WitnessShared ==
    /\ last.op = "define" /\ last.cls = "C1" /\ last.val = StrV("P1")
    /\ schema(class_attrs, "C1") = schema(class_attrs, "P1")
    /\ "z" \in DOMAIN SchemaOf("P1")
    /\ class_attrs["C1"] = [k \in {"__bases__"} |-> StrV("P1")]

\* two classes defined directly under PageState hold metadata dicts of
\* their own
C40_WitnessApart ==
    /\ last.op = "define" /\ last.cls = "C1" /\ last.val = StrV("PageState")
    /\ schema(class_attrs, "C1") # schema(class_attrs, "P1")
    /\ "z" \in DOMAIN SchemaOf("C1") /\ "z" \notin DOMAIN SchemaOf("P1")
====
